---- MODULE Spec2Model ----
(***************************************************************************)
(* Work Graph Playground: the host application.                            *)
(*                                                                         *)
(* The model covers main(), the Application constructor, the frame loop of *)
(* Application::Run, Application::CreateWorkGraph with the WorkGraph       *)
(* constructor and ShaderCompiler::CompileShader, the hot-reload poll      *)
(* ShaderCompiler::CheckShaderSourceFiles, the Device fence protocol and   *)
(* the GPU consuming the command queue asynchronously, the swapchain's     *)
(* frame-latency waitable object and Application::GetTutorials.            *)
(*                                                                         *)
(* The model also covers three pieces of the tutorials' HLSL: the input    *)
(* bitmask of Common.h, the graph of the recursion tutorial and the graph  *)
(* of the synchronization tutorial's sample solution.                      *)
(*                                                                         *)
(* Twelve specifications share the actions:                                *)
(*   Spec        main(): construction, then the frame loop, on a GPU that  *)
(*               keeps up, with shader files saved by an editor.           *)
(*   SpecClock   as Spec, with clock reads that are far apart.             *)
(*   SpecDevice  the frame loop on an asynchronous GPU, in a window that   *)
(*               is resized.                                               *)
(*   SpecUnit    ShaderCompiler::CheckShaderSourceFiles and builds of one  *)
(*               tutorial, called in any order.                            *)
(*   SpecBuild   Application::CreateWorkGraph called for any tutorial and  *)
(*               mode.                                                     *)
(*   SpecPipeline  steady frames on an asynchronous GPU, over two rounds   *)
(*               of the frame slots.                                       *)
(*   SpecTutorials  Application::GetTutorials on tutorials folders that    *)
(*               gain files between calls.                                 *)
(*   SpecInput   OnRender pushing the root constants under every           *)
(*               combination of mouse buttons and keys.                    *)
(*   SpecSession as Spec, over more frames, with a user who selects        *)
(*               tutorials and an editor that saves between frames.        *)
(*   SpecLive    SpecPipeline with a GPU and a main thread that go on.     *)
(*   SpecRecursion  one dispatch of the recursion tutorial's graph.        *)
(*   SpecSynchronization  one dispatch of the synchronization tutorial's   *)
(*               sample solution, its threads interleaving.                *)
(***************************************************************************)
EXTENDS Integers, Sequences, FiniteSets, TLC

\* ---------------------------------------------------------------- bounds
\* frames the loop of Run is followed for
MaxFrames == 2
\* writes the external editor makes to shader files
MaxWrites == 1
\* clock ticks that pass between two reads of the clock that are far apart
MaxClockStep == 4
\* calls of CheckShaderSourceFiles the unit driver of SpecUnit makes
MaxPolls == 3
\* calls of CreateWorkGraph the unit driver of SpecUnit and SpecBuild makes
MaxBuilds == 2
\* frames of Run in SpecPipeline (two rounds over the BufferedFramesCount slots)
MaxPipelineFrames == 6
\* directory entries below tutorials/ in SpecTutorials
MaxEntries == 3
\* calls of GetTutorials in SpecTutorials
MaxCalls == 2

\* frames of a session in which the user selects tutorials
MaxSessionFrames == 3

\* points of the sketch animation in the synchronization tutorial (numPoints,
\* 1024 in the shader) and threads of a thread group (groupSize, 32 in the
\* shader)
MaxPoints == 4
MaxGroupSize == 2

\* ------------------------------------------------------- program constants
BufferedFramesCount == 3
BackbufferCount == 3
ErrorMessageDuration == 5
\* 0xFFFFFFFFU; the model checker's integers are 32-bit signed, in which the
\* same bit pattern reads -1
InvalidEntrypointIndex == -1
DefaultWindowWidth == 1280
DefaultWindowHeight == 720

\* ------------------------------------------------------------ environment
\* A directory entry below tutorials/, as recursive_directory_iterator yields
\* it: the directory relative to tutorials/ ("" for tutorials/ itself), the
\* stem of the file name as a sequence of characters, the extension.
Entry(parent, stem, extension) == [parent |-> parent, stem |-> stem, extension |-> extension]

\* the characters std::isupper classifies as uppercase (C locale, ASCII)
UpperChars == {"A", "B", "C", "D", "E", "F", "G", "H", "I", "J", "K", "L", "M", "N", "O", "P",
               "Q", "R", "S", "T", "U", "V", "W", "X", "Y", "Z"}
isupper(c) == c \in UpperChars

\* std::string from its characters
RECURSIVE String(_)
String(chars) == IF chars = << >> THEN "" ELSE Head(chars) \o String(Tail(chars))

\* operator<<(std::size_t): the decimal digits of a number
DecimalDigit(d) ==
    CASE d = 0 -> "0" [] d = 1 -> "1" [] d = 2 -> "2" [] d = 3 -> "3" [] d = 4 -> "4"
      [] d = 5 -> "5" [] d = 6 -> "6" [] d = 7 -> "7" [] d = 8 -> "8" [] d = 9 -> "9"
RECURSIVE Decimal(_)
Decimal(n) == IF n < 10 THEN DecimalDigit(n) ELSE Decimal(n \div 10) \o DecimalDigit(n % 10)

\* std::string::ends_with
EndsWith(chars, suffix) ==
    /\ Len(chars) >= Len(suffix)
    /\ SubSeq(chars, Len(chars) - Len(suffix) + 1, Len(chars)) = suffix

SolutionSuffix == << "S", "o", "l", "u", "t", "i", "o", "n" >>

\* a name loop that never inserts a space
NameCharsUnspaced(stem, lastUpper) == String(stem)

\* GetTutorials: the loop over the characters of the stem, a space in front
\* of a character when upper && !lastUpper
RECURSIVE NameChars(_, _)
NameChars(stem, lastUpper) ==
    IF stem = << >> THEN ""
    ELSE (IF isupper(Head(stem)) /\ ~lastUpper THEN " " ELSE "")
         \o Head(stem) \o NameChars(Tail(stem), isupper(Head(stem)))

\* std::filesystem::relative(path, shaderFolder).generic_string()
RelativePath(parent, fileName) == IF parent = "" THEN fileName ELSE parent \o "/" \o fileName

\* std::filesystem::exists(path.parent_path() / (stem + "Solution.hlsl"))
SolutionExists(listing, entry) ==
    \E k \in DOMAIN listing :
       /\ listing[k].parent = entry.parent
       /\ listing[k].stem = entry.stem \o SolutionSuffix
       /\ listing[k].extension = ".hlsl"

\* GetTutorials, the lambda LoadTutorials: the loop over the directory
\* entries from entry k on, `result` being the vector built so far
RECURSIVE LoadTutorialsFrom(_, _, _)
LoadTutorialsFrom(listing, k, result) ==
    IF k > Len(listing) THEN result
    ELSE IF listing[k].extension # ".hlsl" THEN LoadTutorialsFrom(listing, k + 1, result)
    ELSE IF EndsWith(listing[k].stem, SolutionSuffix)
           THEN LoadTutorialsFrom(listing, k + 1, result)
    ELSE LoadTutorialsFrom(listing, k + 1, Append(result,
           [name |-> "Tutorial " \o Decimal(Len(result)) \o ": "
                     \o NameChars(listing[k].stem, TRUE),
            shaderFileName |->
               RelativePath(listing[k].parent, String(listing[k].stem) \o ".hlsl"),
            solutionShaderFileName |->
               IF SolutionExists(listing, listing[k])
                 THEN RelativePath(listing[k].parent,
                                   String(listing[k].stem) \o "Solution.hlsl")
                 ELSE ""]))

LoadTutorials(listing) == LoadTutorialsFrom(listing, 1, << >>)

\* a GetTutorials that walks the folder in every call
GetTutorialsReloads(loaded, cached, listing) == LoadTutorials(listing)

\* GetTutorials: static std::vector tutorials = LoadTutorials(); return tutorials;
GetTutorialsStatic(loaded, cached, listing) ==
    IF loaded THEN cached ELSE LoadTutorials(listing)

\* the tutorials folder of the application: one tutorial with a sample
\* solution, one without, and the header they include
PlaygroundFolder ==
    << Entry("", << "C", "o", "m", "m", "o", "n" >>, ".h"),
       Entry("tutorial-1", << "R", "e", "c", "o", "r", "d", "s" >>, ".hlsl"),
       Entry("tutorial-1", << "R", "e", "c", "o", "r", "d", "s" >> \o SolutionSuffix, ".hlsl"),
       Entry("tutorial-5", << "S", "y", "n", "c", "h", "r", "o", "n", "i", "z", "a", "t", "i",
                              "o", "n" >>, ".hlsl") >>

TutorialsFolder == LoadTutorials(PlaygroundFolder)

\* the directory entries the tutorials folders of SpecTutorials are made of
EntryPool ==
    { Entry("a", << "M", "y", "N", "e", "w" >>, ".hlsl"),
      Entry("a", << "M", "y", "N", "e", "w" >> \o SolutionSuffix, ".hlsl"),
      Entry("", << "M", "y", "N", "e", "w" >>, ".hlsl"),
      Entry("", << "A", "B", "c", "1", "D" >>, ".hlsl"),
      Entry("", SolutionSuffix, ".hlsl"),
      Entry("a", << "x", "Y" >>, ".h") }

SourceNames == {"tutorial-1/Records.hlsl", "tutorial-1/RecordsSolution.hlsl",
                "tutorial-5/Synchronization.hlsl"}
HeaderName == "Common.h"

\* what a shader file holds, as far as the compiler and the runtime can tell:
\*   "ok"      compiles, declares the node ("Entry", 0)
\*   "bad"     does not compile
\*   "noentry" compiles, declares no node ("Entry", 0)
\*   "plain"   as "ok", without any #include
SourceContents == {"ok", "bad", "noentry", "plain"}
HeaderContents == {"ok", "bad"}

\* sizes a WM_SIZE message delivers (0 x 0: the window was minimised)
WindowSizes == { <<1280, 720>>, <<800, 600>>, <<0, 0>> }

\* std::filesystem::absolute(shaderFolderPath_ / shaderFile).generic_string()
GetShaderSourceFilePath(shaderFile) == "C:/playground/tutorials/" \o shaderFile

SourcePaths == { GetShaderSourceFilePath(n) : n \in SourceNames }
HeaderPath == GetShaderSourceFilePath(HeaderName)
Paths == SourcePaths \cup {HeaderPath}

\* D3D12_WORK_GRAPH_MEMORY_REQUIREMENTS::MaxSizeInBytes of the programs: a
\* program that requests no backing memory, a program that requests some
BackingMemorySize == 64
MemoryRequirements == {0, BackingMemorySize}

\* ID3D12Resource::GetGPUVirtualAddress of a backing memory buffer
BackingMemoryAddress == 4096

\* a file that is not in trackedFiles_
Untracked == -1

VARIABLES
    \* main() and Application
    pc, caller, exitCode, stderr, tutorials, folder, tutorialsLoaded, getTutorials,
    window, swapchain, swapchainWaitableObject, writableBackbuffer,
    workGraph, workGraphTutorialIndex, workGraphUseSampleSolution,
    clearPersistentScratchBuffer, errorMessageEndTime, startTime,
    \* Device and the GPU
    signaledFenceValue, fence, frameIndex, frameContexts, commandQueue, commandList,
    \* ShaderCompiler
    trackedFiles, source,
    \* environment: clock and file system
    now, fileTime, fileContent, writes,
    \* history
    nextId, released, lastBuild, lastRelease, submitsSinceBarrier,
    frame, frameInfo, lastPoll, prevPoll, unreported, ui, unitOps,
    \* environment: the mouse buttons and keys ImGui reports as down
    inputDown,
    \* the D3D12 state of the back buffers and of the writable back buffer, in
    \* the order of the command queue, and the current back buffer
    resources,
    \* the graph of the recursion tutorial on the GPU: the records pending for
    \* each node and recursion level, the last node invocation, what was drawn
    recursion,
    \* the graph of the synchronization tutorial's sample solution on the GPU:
    \* the threads of ComputeBoundingBox, their shared input record, the
    \* groups that have called FinishedCrossGroupSharing, what was drawn
    sync

inputVars == << inputDown >>
shaderVars == << recursion, sync >>
tutorialVars == << folder, tutorialsLoaded, getTutorials >>
applicationVars == << tutorials, tutorialVars, inputVars, window, swapchain,
                      swapchainWaitableObject, writableBackbuffer,
                      workGraphTutorialIndex, workGraphUseSampleSolution,
                      clearPersistentScratchBuffer, errorMessageEndTime, startTime >>
appVars == << applicationVars, shaderVars >>
devVars == << signaledFenceValue, fence, frameIndex, frameContexts, commandQueue, commandList >>
fsVars == << fileTime, fileContent, writes >>
pollVars == << lastPoll, prevPoll >>
frameVars == << frame, frameInfo, ui >>

vars == << pc, caller, exitCode, stderr, appVars, resources, workGraph, devVars, trackedFiles, source,
           now, fsVars, nextId, released, lastBuild, lastRelease, submitsSinceBarrier,
           frameVars, pollVars, unreported, unitOps >>

\* ------------------------------------------------------------------ values
\* workGraph_ == nullptr
NoGraph == [id |-> 0, tutorialIndex |-> 0, sampleSolution |-> FALSE,
            entryPointIndex |-> 0, initialize |-> FALSE,
            dispatched |-> FALSE, maxSizeInBytes |-> 0, backingMemory |-> 0,
            startAddress |-> 0, sizeInBytes |-> 0]

NoBuild == [caller |-> "none", before |-> NoGraph, success |-> FALSE, error |-> "", content |-> "",
            index |-> 0, solution |-> FALSE, time |-> 0, returned |-> FALSE, recorded |-> {}]
NoRelease == [id |-> 0, fence |-> 0, waits |-> {}, inFlight |-> {}, submits |-> 0]
NoPoll == [valid |-> FALSE, stored |-> <<>>, times |-> <<>>, failed |-> {},
           reported |-> {}, pending |-> {}, result |-> FALSE, after |-> <<>>]
NoFrameInfo == [identity |-> NoGraph, clock |-> 0, resize |-> FALSE, pending |-> FALSE,
                polled |-> FALSE, changed |-> FALSE,
                switchRequested |-> FALSE, builds |-> 0, replaced |-> 0]
NoUi == [rendered |-> FALSE, banner |-> FALSE, time |-> 0, selected |-> FALSE]
NoSource == [path |-> "", content |-> "", loads |-> 0]

\* tutorials[tutorialIndex] of the 0-based std::span
Tutorial(i) == tutorials[i + 1]

Max(S) == CHOOSE x \in S : \A y \in S : y <= x


\* ------------------------------------------------------------------ clock
\* std::chrono::high_resolution_clock::now(): the value of this read, given
\* the value `now` of the previous read.  Two reads are separated by device,
\* compiler or window-system calls, so the counter has advanced between them:
\* by one tick, or by MaxClockStep ticks.
ClockReads == {now + 1, now + MaxClockStep}

\* ------------------------------------------------------------ file system
\* the external editor saves a shader file
WriteFile ==
    /\ pc # "exit"
    /\ writes < MaxWrites
    /\ \E p \in Paths :
         \E c \in (IF p = HeaderPath THEN HeaderContents ELSE SourceContents) :
            /\ fileTime' = [fileTime EXCEPT ![p] = @ + 1]
            /\ fileContent' = [fileContent EXCEPT ![p] = c]
            /\ unreported' = IF trackedFiles[p] # Untracked THEN unreported \cup {p} ELSE unreported
    /\ writes' = writes + 1
    /\ UNCHANGED << pc, caller, exitCode, stderr, appVars, resources, workGraph, devVars, trackedFiles,
                    source, now, nextId, released, lastBuild, lastRelease, submitsSinceBarrier,
                    frameVars, pollVars, unitOps >>

\* --------------------------------------------------------- ShaderCompiler
\* CheckShaderSourceFiles: the files the loop reports as modified; `failed`
\* are the files whose last_write_time throws filesystem_error in this call
ChangedFiles(tracked, times, failed) ==
    { p \in Paths : tracked[p] # Untracked /\ p \notin failed /\ tracked[p] # times[p] }

\* CheckShaderSourceFiles: the value returned
CheckShaderSourceFilesResult(tracked, times, failed) ==
    ChangedFiles(tracked, times, failed) # {}

\* a CheckShaderSourceFiles that does not store the timestamps it has read
CheckShaderSourceFilesKeeps(tracked, times, failed) == tracked

\* a CheckShaderSourceFiles that stores the current time of a file whose stat
\* failed
CheckShaderSourceFilesStoresFailed(tracked, times, failed) ==
    [p \in Paths |-> IF tracked[p] # Untracked THEN times[p] ELSE tracked[p]]

\* CheckShaderSourceFiles: trackedFiles_ after the call
CheckShaderSourceFilesStored(tracked, times, failed) ==
    [p \in Paths |-> IF tracked[p] # Untracked /\ p \notin failed THEN times[p] ELSE tracked[p]]

\* the poll as a step: its effect on trackedFiles_ (and on the modifications
\* still to be reported)
PollFiles(failed) ==
    /\ trackedFiles' = CheckShaderSourceFilesStored(trackedFiles, fileTime, failed)
    /\ unreported' = unreported \ ChangedFiles(trackedFiles, fileTime, failed)

\* the files the compiler asks the include handler for while it compiles a
\* source (the tutorials include Common.h)
Includes(content) == IF content = "plain" THEN {} ELSE {HeaderPath}

\* an include handler that does not record the files it loads
RecordIncludesNever(tracked, loaded) == tracked

\* FileTrackingIncludeHandler::LoadSource: trackedFiles_ after the handler has
\* loaded the files `loaded`
RecordIncludes(tracked, loaded) ==
    [p \in Paths |-> IF p \in loaded THEN fileTime[p] ELSE tracked[p]]

\* a CompileShader that does not record the top-level file
RecordTopLevelNever(tracked, path) == tracked

\* CompileShader: trackedFiles_[shaderSourceFilePath] = last_write_time(...)
RecordTopLevel(tracked, path) == [tracked EXCEPT ![path] = fileTime[path]]

\* a CompileShader that gives up after the first failed load
LoadRetriedNever(failed) == FALSE

\* CompileShader: the second utils_->LoadFile is called when the first failed
LoadRetried(failed) == failed

\* IDxcOperationResult::GetStatus for a loaded source and its include
CompileSucceeds(content, includeLoaded, includeContent) ==
    includeLoaded /\ includeContent = "ok" /\ content # "bad"

\* a GetEntrypointIndex that finds an entry node in every program
GetEntrypointIndexFound(content) == 0

\* ID3D12WorkGraphProperties::GetEntrypointIndex(workGraphIndex, {L"Entry", 0})
GetEntrypointIndex(content) ==
    IF content = "noentry" THEN InvalidEntrypointIndex ELSE 0

\* ----------------------------------------------------------------- Device
\* commandQueue_->Signal(fence_, ++signaledFenceValue_)
Signal ==
    /\ signaledFenceValue' = signaledFenceValue + 1
    /\ commandQueue' = Append(commandQueue,
                              [type |-> "signal", value |-> signaledFenceValue + 1, graph |-> 0])

\* Device::WaitForDevice, first half: signal the fence
WaitForDeviceSignal ==
    /\ Signal
    /\ UNCHANGED << fence, frameIndex, frameContexts, commandList >>

\* a WaitForDevice that returns without waiting for the fence
WaitForDeviceSkipped == TRUE

\* Device::WaitForDevice, second half: the wait is over
WaitForDeviceReturns == fence >= signaledFenceValue

\* the GPU takes the next item of the command queue
GpuStep ==
    /\ commandQueue # << >>
    /\ fence' = IF Head(commandQueue).type = "signal" THEN Head(commandQueue).value ELSE fence
    \* a frame that has been presented signals the frame-latency waitable object
    /\ swapchainWaitableObject' = IF Head(commandQueue).type = "present"
                                    THEN swapchainWaitableObject + 1
                                    ELSE swapchainWaitableObject
    /\ commandQueue' = Tail(commandQueue)
    /\ UNCHANGED << pc, caller, exitCode, stderr, tutorials, tutorialVars, inputVars, shaderVars, resources, window, swapchain,
                    writableBackbuffer, workGraphTutorialIndex, workGraphUseSampleSolution,
                    clearPersistentScratchBuffer, errorMessageEndTime, startTime,
                    workGraph, signaledFenceValue,
                    frameIndex, frameContexts, commandList, trackedFiles, source, now, fsVars,
                    nextId, released, lastBuild, lastRelease, submitsSinceBarrier,
                    frameVars, pollVars, unreported, unitOps >>

\* the work graph instances command lists in the queue still refer to
InFlightGraphs == { commandQueue[i].graph : i \in { j \in DOMAIN commandQueue : commandQueue[j].type = "exec" } }


\* ---------------------------------------------- Application::CreateWorkGraph
\* a CreateWorkGraph that resets workGraph_ before it constructs the new one
CreateWorkGraphResets(success, newGraph) == IF success THEN newGraph ELSE NoGraph

\* Application::CreateWorkGraph: workGraph_ after the try block; the assignment
\* is reached only if the WorkGraph constructor did not throw
CreateWorkGraphAssigns(success, newGraph) == IF success THEN newGraph ELSE workGraph

\* a catch handler that rethrows whatever the state of workGraph_
CreateWorkGraphRethrowsAlways(success) == ~success

\* Application::CreateWorkGraph: the catch handler rethrows if there is no
\* work graph yet
CreateWorkGraphRethrows(success) == ~success /\ workGraph.id = 0

\* a Run that arms the error banner after every build
ErrorMessageEndArmed(success, t) == t + ErrorMessageDuration

\* Run: errorMessageEndTime_ after a build whose outcome was read at time t
ErrorMessageEnd(success, t) == IF success THEN t ELSE t + ErrorMessageDuration

\* a Run that resets the start time after a successful hot-reload, as it does
\* after a successful switch
StartTimeReset(success, t) == IF success THEN t ELSE startTime

\* Run: startTime_ after the hot-reload branch, which does not assign it
StartTimeAfterReload(success, t) == startTime

\* a Run that keeps the requested tutorial and mode after a failed switch
RequestedKept(graph) == << workGraphTutorialIndex, workGraphUseSampleSolution >>

\* Run: workGraphTutorialIndex_ and workGraphUseSampleSolution_ after a failed
\* switch
RequestedAfterFailedSwitch(graph) == << graph.tutorialIndex, graph.sampleSolution >>

\* The end of Application::CreateWorkGraph and what its caller does with the
\* result: the constructor (rethrow), the hot-reload branch of Run, the switch
\* branch of Run.  `recorded` are the files whose timestamp this build stored.
FinishCreateWorkGraph(success, err, newGraph, tracked, recorded) ==
    LET rethrow == CreateWorkGraphRethrows(success)
        build(t) == [caller |-> caller, before |-> workGraph, success |-> success,
                     error |-> err, content |-> source.content,
                     index |-> workGraphTutorialIndex,
                     solution |-> workGraphUseSampleSolution, time |-> t,
                     returned |-> ~rethrow, recorded |-> recorded]
    IN
    /\ trackedFiles' = tracked
    /\ unreported' = unreported \ recorded
    /\ source' = NoSource
    /\ frameInfo' = [frameInfo EXCEPT !.builds = @ + 1,
                                      !.replaced = IF success /\ workGraph.id # 0 THEN @ + 1 ELSE @]
    /\ workGraph' = CreateWorkGraphAssigns(success, newGraph)
    /\ IF success
         THEN /\ nextId' = nextId + 1
              /\ released' = IF workGraph.id # 0 THEN released \cup {workGraph.id} ELSE released
              /\ lastRelease' =
                    IF workGraph.id # 0
                      THEN [id |-> workGraph.id, fence |-> fence,
                            waits |-> { frameContexts[i] : i \in DOMAIN frameContexts },
                            inFlight |-> InFlightGraphs, submits |-> submitsSinceBarrier]
                      ELSE lastRelease
         ELSE UNCHANGED << nextId, released, lastRelease >>
    /\ IF rethrow
         THEN \* throw e: out of the constructor, into main's handler
              /\ pc' = "exit"
              /\ exitCode' = 1
              /\ stderr' = err
              /\ lastBuild' = build(now)
              /\ UNCHANGED << now, workGraphTutorialIndex, workGraphUseSampleSolution,
                              clearPersistentScratchBuffer, errorMessageEndTime, startTime >>
         ELSE
              /\ exitCode' = exitCode
              /\ stderr' = IF success THEN stderr ELSE err
              /\ CASE caller = "reload" ->
                        \E t \in ClockReads :
                           /\ now' = t
                           /\ errorMessageEndTime' = ErrorMessageEnd(success, t)
                           /\ lastBuild' = build(t)
                           /\ pc' = "switch"
                           /\ startTime' = StartTimeAfterReload(success, t)
                           /\ UNCHANGED << workGraphTutorialIndex, workGraphUseSampleSolution,
                                           clearPersistentScratchBuffer >>
                   [] caller = "switch" ->
                        \E t \in ClockReads :
                           /\ now' = t
                           /\ lastBuild' = build(t)
                           /\ pc' = "acquire"
                           /\ errorMessageEndTime' = ErrorMessageEnd(success, t)
                           /\ IF success
                                THEN /\ clearPersistentScratchBuffer' = TRUE
                                     /\ startTime' = t
                                     /\ UNCHANGED << workGraphTutorialIndex,
                                                     workGraphUseSampleSolution >>
                                ELSE /\ workGraphTutorialIndex' =
                                           RequestedAfterFailedSwitch(workGraph)[1]
                                     /\ workGraphUseSampleSolution' =
                                           RequestedAfterFailedSwitch(workGraph)[2]
                                     /\ UNCHANGED << clearPersistentScratchBuffer, startTime >>
                   [] OTHER ->
                        /\ pc' = IF caller = "ctor" THEN "frame" ELSE "unit"
                        /\ lastBuild' = build(now)
                        /\ UNCHANGED << now, workGraphTutorialIndex, workGraphUseSampleSolution,
                                        clearPersistentScratchBuffer, errorMessageEndTime,
                                        startTime >>
    /\ UNCHANGED << caller, tutorials, tutorialVars, inputVars, shaderVars, resources, window, swapchain, swapchainWaitableObject,
                    writableBackbuffer, devVars, fsVars,
                    frame, ui, pollVars, unitOps >>

\* a CreateWorkGraph that builds the tutorial and mode of the running instance
\* again, if there is one
BuiltTutorialRunning ==
    IF workGraph.id # 0 THEN << workGraph.tutorialIndex, workGraph.sampleSolution >>
                        ELSE << workGraphTutorialIndex, workGraphUseSampleSolution >>

\* Application::CreateWorkGraph: the tutorial and mode it passes to the
\* WorkGraph constructor are the requested ones
BuiltTutorial == << workGraphTutorialIndex, workGraphUseSampleSolution >>

\* CreateWorkGraph once WaitForDevice has returned: the WorkGraph constructor up
\* to CompileShader's first load of the top-level source
CwgLoad ==
    /\ pc = "cwg"
    /\ WaitForDeviceReturns
    /\ submitsSinceBarrier' = 0
    /\ LET tutorial == Tutorial(BuiltTutorial[1])
           file == IF BuiltTutorial[2] THEN tutorial.solutionShaderFileName
                                       ELSE tutorial.shaderFileName
           path == GetShaderSourceFilePath(file)
       IN  IF BuiltTutorial[2] /\ tutorial.solutionShaderFileName = ""
             THEN FinishCreateWorkGraph(FALSE, "selected tutorial does not provide a sample solution.",
                                        workGraph, trackedFiles, {})
             ELSE \E loaded \in BOOLEAN :
                    IF ~loaded /\ ~LoadRetried(~loaded)
                      THEN FinishCreateWorkGraph(FALSE, "Failed to load shader file",
                                                 workGraph, trackedFiles, {})
                      ELSE /\ pc' = IF loaded THEN "cwg_compile" ELSE "cwg_retry"
                           /\ source' = [path |-> path,
                                         content |-> IF loaded THEN fileContent[path] ELSE "",
                                         loads |-> 1]
                           /\ UNCHANGED << caller, exitCode, stderr, appVars, resources, workGraph, devVars,
                                           trackedFiles, now, fsVars, nextId, released,
                                           lastBuild, lastRelease, frameVars, pollVars,
                                           unreported, unitOps >>

\* CompileShader: the second load of the top-level source, and the throw
\* when it fails as well
CwgRetry ==
    /\ pc = "cwg_retry"
    /\ UNCHANGED submitsSinceBarrier
    /\ \E loaded \in BOOLEAN :
         IF ~loaded
           THEN FinishCreateWorkGraph(FALSE, "Failed to load shader file",
                                      workGraph, trackedFiles, {})
           ELSE /\ pc' = "cwg_compile"
                /\ source' = [path |-> source.path, content |-> fileContent[source.path],
                              loads |-> source.loads + 1]
                /\ UNCHANGED << caller, exitCode, stderr, appVars, resources, workGraph, devVars,
                                trackedFiles, now, fsVars, nextId, released,
                                lastBuild, lastRelease, frameVars, pollVars,
                                unreported, unitOps >>

\* a constructor that allocates backing memory for every program
CreateBackingMemoryAlways(maxSizeInBytes) == BackingMemorySize

\* WorkGraph::WorkGraph: the width of the buffer backingMemory_ refers to
\* (0: backingMemory_ is null)
CreateBackingMemory(maxSizeInBytes) == IF maxSizeInBytes > 0 THEN maxSizeInBytes ELSE 0

\* The rest of CompileShader (the compile with its include handler, the
\* timestamp of the top-level file) and of the WorkGraph constructor (state
\* object, entry point), then the assignment to workGraph_
CwgCompile ==
    /\ pc = "cwg_compile"
    /\ UNCHANGED submitsSinceBarrier
    /\ \E includesLoaded \in SUBSET Includes(source.content), statOk \in BOOLEAN,
          created \in BOOLEAN, maxSizeInBytes \in MemoryRequirements :
         LET afterInclude == RecordIncludes(trackedFiles, includesLoaded)
             compiled == CompileSucceeds(source.content,
                                         includesLoaded = Includes(source.content),
                                         IF HeaderPath \in includesLoaded
                                           THEN fileContent[HeaderPath] ELSE "ok")
             afterCompile == RecordTopLevel(afterInclude, source.path)
             entry == GetEntrypointIndex(source.content)
             graph == [id |-> nextId, tutorialIndex |-> BuiltTutorial[1],
                       sampleSolution |-> BuiltTutorial[2],
                       entryPointIndex |-> entry, initialize |-> TRUE,
                       dispatched |-> FALSE, maxSizeInBytes |-> maxSizeInBytes,
                       backingMemory |-> CreateBackingMemory(maxSizeInBytes),
                       \* if (backingMemory_) { StartAddress = ...; SizeInBytes = ... }
                       startAddress |-> IF CreateBackingMemory(maxSizeInBytes) # 0
                                          THEN BackingMemoryAddress ELSE 0,
                       sizeInBytes |-> CreateBackingMemory(maxSizeInBytes)]
         IN  IF ~compiled
               THEN FinishCreateWorkGraph(FALSE, "Failed to compile shader", workGraph,
                                          afterInclude, includesLoaded)
             ELSE IF ~statOk
               THEN FinishCreateWorkGraph(FALSE, "filesystem error", workGraph,
                                          afterInclude, includesLoaded)
             ELSE IF ~created
               THEN FinishCreateWorkGraph(FALSE, "Operation Failed", workGraph,
                                          afterCompile, includesLoaded \cup {source.path})
             ELSE IF entry = InvalidEntrypointIndex
               THEN FinishCreateWorkGraph(FALSE, "work graph does not contain an entry node",
                                          workGraph, afterCompile,
                                          includesLoaded \cup {source.path})
             ELSE FinishCreateWorkGraph(TRUE, "", graph, afterCompile,
                                        includesLoaded \cup {source.path})


\* ------------------------------------------------- main() and Application
\* no swapchain and no writable back buffer yet
NoResources == [backbuffer |-> 0,
                renderTargets |-> [i \in 0 .. (BackbufferCount - 1) |-> "NONE"],
                writableBackbuffer |-> "NONE"]

\* the resources as created: the swapchain's buffers are in the state COMMON,
\* which is the state PRESENT, the first buffer is the current one; the
\* writable back buffer is created in UNORDERED_ACCESS
CreatedResources == [backbuffer |-> 0,
                     renderTargets |-> [i \in 0 .. (BackbufferCount - 1) |-> "PRESENT"],
                     writableBackbuffer |-> "UNORDERED_ACCESS"]

\* ResourceBarrier with a transition barrier: the resource goes to the state
\* after; a barrier whose state before is not the state of the resource
\* leaves it in no defined state
ResourceBarrier(states, command) ==
    LET current == IF command.res = "renderTarget"
                     THEN states.renderTargets[states.backbuffer]
                     ELSE states.writableBackbuffer
        after == IF current = command.from THEN command.to ELSE "MISMATCH"
    IN  IF command.res = "renderTarget"
          THEN [states EXCEPT !.renderTargets[states.backbuffer] = after]
          ELSE [states EXCEPT !.writableBackbuffer = after]

\* the states of the resources after the commands of a list from the k-th on
RECURSIVE ExecuteCommands(_, _, _)
ExecuteCommands(list, k, states) ==
    IF k > Len(list) THEN states
    ELSE ExecuteCommands(list, k + 1,
                         IF list[k].op = "Transition" THEN ResourceBarrier(states, list[k])
                                                      ELSE states)

\* CD3DX12_RESOURCE_DESC::Tex2D + CreateCommittedResource under ThrowIfFailed:
\* a texture needs at least one texel in each dimension
Tex2DValid(size) == size[1] >= 1 /\ size[2] >= 1

\* main() up to the first CreateWorkGraph: member initialisers of Application,
\* the tutorial check, Window, Device, Swapchain and the shader resources
Main ==
    /\ pc = "main"
    /\ \E t1 \in ClockReads : \E t2 \in t1 .. (t1 + 1) :
       \E dxcompiler \in BOOLEAN, adapter \in BOOLEAN, slot \in 0 .. (BufferedFramesCount - 1) :
          /\ now' = t2
          /\ IF ~dxcompiler \/ tutorials = << >> \/ ~adapter
               THEN /\ pc' = "exit"
                    /\ exitCode' = 1
                    /\ stderr' = IF ~dxcompiler THEN "Failed to load dxcompiler.dll"
                                 ELSE IF tutorials = << >> THEN "No tutorials found."
                                 ELSE "No device with work graphs support was found."
                    /\ UNCHANGED << caller, appVars, resources, devVars >>
               ELSE /\ pc' = "cwg"
                    /\ caller' = "ctor"
                    /\ errorMessageEndTime' = t1
                    /\ startTime' = t2
                    /\ window' = << DefaultWindowWidth, DefaultWindowHeight >>
                    /\ swapchain' = << DefaultWindowWidth, DefaultWindowHeight >>
                    \* SetMaximumFrameLatency(BackbufferCount)
                    /\ swapchainWaitableObject' = BackbufferCount
                    /\ writableBackbuffer' = << DefaultWindowWidth, DefaultWindowHeight >>
                    \* Device::frameIndex_ has no initialiser
                    /\ frameIndex' = slot
                    /\ Signal
                    /\ resources' = CreatedResources
                    /\ UNCHANGED << exitCode, stderr, tutorials, tutorialVars, inputVars, shaderVars, workGraphTutorialIndex,
                                    workGraphUseSampleSolution, clearPersistentScratchBuffer,
                                    fence, frameContexts, commandList >>
    /\ UNCHANGED << workGraph, trackedFiles, source, fsVars, nextId, released, lastBuild,
                    lastRelease, submitsSinceBarrier, frameVars, pollVars, unreported, unitOps >>

\* Run, top of the loop body: the resize check
FrameStart ==
    /\ pc = "frame"
    /\ frame' = frame + 1
    /\ frameInfo' = [identity |-> workGraph, clock |-> now, resize |-> (window # swapchain),
                     pending |-> FALSE, polled |-> FALSE, changed |-> FALSE,
                     switchRequested |-> FALSE, builds |-> 0, replaced |-> 0]
    /\ ui' = [NoUi EXCEPT !.selected = ui.selected]
    /\ IF window # swapchain
         THEN /\ pc' = "resize"
              /\ WaitForDeviceSignal
         ELSE /\ pc' = "poll"
              /\ UNCHANGED devVars
    /\ UNCHANGED << caller, exitCode, stderr, appVars, resources, workGraph, trackedFiles, source, now,
                    fsVars, nextId, released, lastBuild, lastRelease, submitsSinceBarrier,
                    pollVars, unreported, unitOps >>

\* OnResize once WaitForDevice has returned: Swapchain::Resize, then
\* CreateWritableBackbuffer
OnResize ==
    /\ pc = "resize"
    /\ WaitForDeviceReturns
    /\ submitsSinceBarrier' = 0
    /\ swapchain' = window
    /\ IF Tex2DValid(window)
         THEN /\ writableBackbuffer' = window
              \* ResizeBuffers and CreateWritableBackbuffer: new resources
              /\ resources' = CreatedResources
              /\ pc' = "poll"
              /\ UNCHANGED << exitCode, stderr >>
         ELSE \* ThrowIfFailed in PrepareRenderTargets: out of Run, into main's handler
              /\ pc' = "exit"
              /\ exitCode' = 1
              /\ stderr' = "Operation Failed"
              /\ UNCHANGED << writableBackbuffer, resources >>
    /\ UNCHANGED << caller, tutorials, tutorialVars, inputVars, shaderVars, window, swapchainWaitableObject, workGraphTutorialIndex,
                    workGraphUseSampleSolution,
                    clearPersistentScratchBuffer, errorMessageEndTime, startTime, workGraph,
                    devVars, trackedFiles, source, now, fsVars, nextId, released, lastBuild,
                    lastRelease, frameVars, pollVars, unreported, unitOps >>

\* the sets of files whose stat can fail within one poll: at most one of the
\* files the loop visits
StatFailures ==
    { S \in SUBSET { p \in Paths : trackedFiles[p] # Untracked } : Cardinality(S) <= 1 }

\* Run: shaderCompiler_.CheckShaderSourceFiles() and the start of the rebuild
Poll ==
    /\ pc = "poll"
    /\ \E failed \in StatFailures :
         /\ PollFiles(failed)
         /\ frameInfo' = [frameInfo EXCEPT
                             !.pending = (unreported # {}), !.polled = TRUE,
                             !.changed = CheckShaderSourceFilesResult(trackedFiles, fileTime, failed)]
         /\ IF CheckShaderSourceFilesResult(trackedFiles, fileTime, failed)
              THEN /\ pc' = "cwg"
                   /\ caller' = "reload"
                   /\ WaitForDeviceSignal
              ELSE /\ pc' = "switch"
                   /\ UNCHANGED << caller, devVars >>
    /\ UNCHANGED << exitCode, stderr, appVars, resources, workGraph, source, now, fsVars, nextId, released,
                    lastBuild, lastRelease, submitsSinceBarrier, frame, ui, pollVars, unitOps >>

\* Run: the comparison of the requested tutorial with the running one
SwitchRequested ==
    \/ workGraph.tutorialIndex # workGraphTutorialIndex
    \/ workGraph.sampleSolution # workGraphUseSampleSolution

\* Run: the switch check and the start of the rebuild
SwitchCheck ==
    /\ pc = "switch"
    /\ frameInfo' = [frameInfo EXCEPT !.switchRequested = SwitchRequested]
    /\ IF SwitchRequested
         THEN /\ pc' = "cwg"
              /\ caller' = "switch"
              /\ WaitForDeviceSignal
         ELSE /\ pc' = "acquire"
              /\ UNCHANGED << caller, devVars >>
    /\ UNCHANGED << exitCode, stderr, appVars, resources, workGraph, trackedFiles, source, now, fsVars,
                    nextId, released, lastBuild, lastRelease, submitsSinceBarrier, frame, ui,
                    pollVars, unreported, unitOps >>

\* a GetNextFrameCommandList that resets the slot without looking at the fence
FrameContextAlwaysAvailable(slot) == TRUE

\* a GetNextFrameCommandList whose wait for a used slot is never woken
FrameContextNeverWoken(slot) == frameContexts[slot] = 0

\* Device::GetNextFrameCommandList: the slot needs no wait
\* (waitFenceValue == 0 or fence_->GetCompletedValue() >= waitFenceValue), or
\* the wait for the slot's fence value has returned
FrameContextAvailable(slot) == frameContexts[slot] = 0 \/ fence >= frameContexts[slot]

\* Device::GetNextFrameCommandList: the next slot's allocator and command
\* list are reset
GetNextFrameCommandList ==
    /\ pc = "acquire"
    /\ LET next == (frameIndex + 1) % BufferedFramesCount
       IN  /\ FrameContextAvailable(next)
           /\ frameIndex' = next
    /\ commandList' = << >>
    /\ pc' = "target"
    /\ UNCHANGED << caller, exitCode, stderr, appVars, resources, workGraph, signaledFenceValue, fence,
                    frameContexts, commandQueue, trackedFiles, source, now, fsVars, nextId,
                    released, lastBuild, lastRelease, submitsSinceBarrier, frameVars, pollVars,
                    unreported, unitOps >>

\* a GetNextRenderTarget that does not wait for the swapchain
SwapchainAlwaysReady == TRUE

\* Swapchain::GetNextRenderTarget: WaitForSingleObject(swapchainWaitableObject_,
\* INFINITE) returns
SwapchainReady == swapchainWaitableObject > 0

\* Swapchain::GetNextRenderTarget and the first barrier of the frame
GetNextRenderTarget ==
    /\ pc = "target"
    /\ SwapchainReady
    /\ swapchainWaitableObject' = swapchainWaitableObject - 1
    /\ commandList' = << [op |-> "Transition", res |-> "renderTarget",
                          from |-> "PRESENT", to |-> "RENDER_TARGET"] >>
    /\ pc' = "render"
    /\ UNCHANGED << caller, exitCode, stderr, tutorials, tutorialVars, inputVars, shaderVars, resources, window, swapchain, writableBackbuffer,
                    workGraphTutorialIndex, workGraphUseSampleSolution,
                    clearPersistentScratchBuffer, errorMessageEndTime, startTime,
                    workGraph, signaledFenceValue, fence, frameIndex,
                    frameContexts, commandQueue, trackedFiles, source, now, fsVars, nextId,
                    released, lastBuild, lastRelease, submitsSinceBarrier, frameVars, pollVars,
                    unreported, unitOps >>

\* a ClearShaderResources that clears the persistent scratch buffer every frame
ClearShaderResourcesAll(clearPersistent) ==
    << [op |-> "ClearUAV", res |-> "writableBackbuffer"],
       [op |-> "ClearUAV", res |-> "scratchBuffer"],
       [op |-> "ClearUAV", res |-> "persistentScratchBuffer"],
       [op |-> "UAVBarrier", res |-> "all"] >>

\* Application::ClearShaderResources: the commands recorded
ClearShaderResources(clearPersistent) ==
    << [op |-> "ClearUAV", res |-> "writableBackbuffer"],
       [op |-> "ClearUAV", res |-> "scratchBuffer"] >>
    \o (IF clearPersistent THEN << [op |-> "ClearUAV", res |-> "persistentScratchBuffer"] >>
                           ELSE << >>)
    \o << [op |-> "UAVBarrier", res |-> "all"] >>

\* a Dispatch that leaves D3D12_SET_WORK_GRAPH_FLAG_INITIALIZE set
DispatchedKeepsFlag(graph) == [graph EXCEPT !.dispatched = TRUE]

\* WorkGraph::Dispatch: the instance after the call,
\* programDesc_.WorkGraph.Flags &= ~D3D12_SET_WORK_GRAPH_FLAG_INITIALIZE.
\* dispatched records that the instance has been dispatched.
Dispatched(graph) == [graph EXCEPT !.initialize = FALSE, !.dispatched = TRUE]

\* a Dispatch that launches the entry node twice
DispatchTwice(graph) ==
    << [op |-> "SetProgram", graph |-> graph.id, initialize |-> graph.initialize,
        startAddress |-> graph.startAddress, sizeInBytes |-> graph.sizeInBytes],
       [op |-> "DispatchGraph", graph |-> graph.id, entry |-> graph.entryPointIndex,
        records |-> 1, recordStride |-> 0],
       [op |-> "DispatchGraph", graph |-> graph.id, entry |-> graph.entryPointIndex,
        records |-> 1, recordStride |-> 0] >>

\* WorkGraph::Dispatch: the commands recorded.  The dispatch description is
\* NODE_CPU_INPUT with NumRecords = 1, RecordStrideInBytes = 0, pRecords = nullptr.
Dispatch(graph) ==
    << [op |-> "SetProgram", graph |-> graph.id, initialize |-> graph.initialize,
        startAddress |-> graph.startAddress, sizeInBytes |-> graph.sizeInBytes],
       [op |-> "DispatchGraph", graph |-> graph.id, entry |-> graph.entryPointIndex,
        records |-> 1, recordStride |-> 0] >>

\* an OnRender that leaves the writable back buffer in COPY_SOURCE after the
\* copy
CopyWritableBackbufferNoRestore ==
    << [op |-> "Transition", res |-> "writableBackbuffer",
        from |-> "UNORDERED_ACCESS", to |-> "COPY_SOURCE"],
       [op |-> "Transition", res |-> "renderTarget",
        from |-> "RENDER_TARGET", to |-> "COPY_DEST"],
       [op |-> "CopyTextureRegion", source |-> writableBackbuffer,
        dest |-> swapchain],
       [op |-> "Transition", res |-> "renderTarget",
        from |-> "COPY_DEST", to |-> "RENDER_TARGET"] >>

\* OnRender: the copy of the writable target into the render target, with its
\* barriers
CopyWritableBackbuffer ==
    << [op |-> "Transition", res |-> "writableBackbuffer",
        from |-> "UNORDERED_ACCESS", to |-> "COPY_SOURCE"],
       [op |-> "Transition", res |-> "renderTarget",
        from |-> "RENDER_TARGET", to |-> "COPY_DEST"],
       [op |-> "CopyTextureRegion", source |-> writableBackbuffer,
        dest |-> swapchain],
       [op |-> "Transition", res |-> "writableBackbuffer",
        from |-> "COPY_SOURCE", to |-> "UNORDERED_ACCESS"],
       [op |-> "Transition", res |-> "renderTarget",
        from |-> "COPY_DEST", to |-> "RENDER_TARGET"] >>

\* ---------------------------------------------------------------------
\* The input state of the root constants
\* ---------------------------------------------------------------------

\* the mouse buttons and keys the host pushes to the shaders
Inputs == {"MouseLeft", "MouseMiddle", "MouseRight", "Space", "UpArrow", "LeftArrow",
           "DownArrow", "RightArrow", "W", "A", "S", "D"}

\* a | b and a & b of two unsigned values
RECURSIVE BitOr(_, _)
BitOr(a, b) ==
    IF a = 0 THEN b
    ELSE IF b = 0 THEN a
    ELSE (IF a % 2 = 1 \/ b % 2 = 1 THEN 1 ELSE 0) + 2 * BitOr(a \div 2, b \div 2)

RECURSIVE BitAnd(_, _)
BitAnd(a, b) ==
    IF a = 0 \/ b = 0 THEN 0
    ELSE (IF a % 2 = 1 /\ b % 2 = 1 THEN 1 ELSE 0) + 2 * BitAnd(a \div 2, b \div 2)

\* bool << shift: the bool is promoted to 0 or 1
ShiftLeft(b, shift) == (IF b THEN 1 ELSE 0) * 2 ^ shift

\* Application::OnRender: the shift of each "constants.inputState |= ... << k",
\* in the order of the statements
HostShifts == << [input |-> "MouseLeft", shift |-> 0], [input |-> "MouseMiddle", shift |-> 1],
                 [input |-> "MouseRight", shift |-> 2], [input |-> "Space", shift |-> 3],
                 [input |-> "UpArrow", shift |-> 4], [input |-> "LeftArrow", shift |-> 5],
                 [input |-> "DownArrow", shift |-> 6], [input |-> "RightArrow", shift |-> 7],
                 [input |-> "W", shift |-> 8], [input |-> "A", shift |-> 9],
                 [input |-> "S", shift |-> 10], [input |-> "D", shift |-> 11] >>

\* inputState after the statements from the k-th on, starting from state
RECURSIVE InputStateFrom(_, _, _)
InputStateFrom(down, k, state) ==
    IF k > Len(HostShifts) THEN state
    ELSE InputStateFrom(down, k + 1,
                        BitOr(state, ShiftLeft(down[HostShifts[k].input], HostShifts[k].shift)))

\* Application::OnRender: .inputState = 0, then the twelve |= statements
InputState(down) == InputStateFrom(down, 1, 0)

\* Common.h, namespace input: the mask of each decode function
ShaderMasks == [IsMouseLeftDown |-> [input |-> "MouseLeft", shift |-> 0],
                IsMouseMiddleDown |-> [input |-> "MouseMiddle", shift |-> 1],
                IsMouseRightDown |-> [input |-> "MouseRight", shift |-> 2],
                IsKeySpaceDown |-> [input |-> "Space", shift |-> 3],
                IsKeyUpArrowDown |-> [input |-> "UpArrow", shift |-> 4],
                IsKeyLeftArrowDown |-> [input |-> "LeftArrow", shift |-> 5],
                IsKeyDownArrowDown |-> [input |-> "DownArrow", shift |-> 6],
                IsKeyRightArrowDown |-> [input |-> "RightArrow", shift |-> 7],
                IsKeyWDown |-> [input |-> "W", shift |-> 8],
                IsKeyADown |-> [input |-> "A", shift |-> 9],
                IsKeySDown |-> [input |-> "S", shift |-> 10],
                IsKeyDDown |-> [input |-> "D", shift |-> 11]]

\* decode functions that test the bit above their own
InputIsDownNextBit(function, state) ==
    BitAnd(state, ShiftLeft(TRUE, ShaderMasks[function].shift + 1)) # 0

\* Common.h: "return InputState & (1 << k);" converted to bool
InputIsDown(function, state) == BitAnd(state, ShiftLeft(TRUE, ShaderMasks[function].shift)) # 0

\* Application::OnRender: the root constants pushed; the Time constant is
\* now() - startTime_, the command keeps its origin startTime_
RootConstants ==
    [op |-> "SetRootConstants", width |-> window[1], height |-> window[2],
     origin |-> startTime, inputState |-> InputState(inputDown)]

\* an OnRender that dispatches before it clears and sets the root constants
OnRenderCommandsDispatchFirst ==
    Dispatch(workGraph)
    \o ClearShaderResources(clearPersistentScratchBuffer)
    \o << RootConstants >>
    \o CopyWritableBackbuffer

\* Application::OnRender: the commands recorded.  The Time constant is
\* now() - startTime_; the command keeps its origin startTime_.
OnRenderCommands ==
    ClearShaderResources(clearPersistentScratchBuffer)
    \o << RootConstants >>
    \o Dispatch(workGraph)
    \o CopyWritableBackbuffer

\* Application::OnRender
OnRender ==
    /\ pc = "render"
    /\ commandList' = commandList \o OnRenderCommands
    /\ clearPersistentScratchBuffer' = FALSE
    /\ workGraph' = Dispatched(workGraph)
    /\ pc' = "ui"
    /\ UNCHANGED << caller, exitCode, stderr, tutorials, tutorialVars, inputVars, shaderVars, resources, window, swapchain, swapchainWaitableObject,
                    writableBackbuffer,
                    workGraphTutorialIndex, workGraphUseSampleSolution, errorMessageEndTime,
                    startTime, signaledFenceValue, fence, frameIndex, frameContexts,
                    commandQueue, trackedFiles, source, now, fsVars, nextId, released, lastBuild,
                    lastRelease, submitsSinceBarrier, frameVars, pollVars, unreported, unitOps >>

\* a menu bar that shows the Sample Solution checkbox for every tutorial
SolutionCheckboxAlways(index) == TRUE

\* Application::OnRenderUserInterface: the Sample Solution checkbox is drawn
\* if the requested tutorial has a solution file
SolutionCheckboxShown(index) == Tutorial(index).solutionShaderFileName # ""

\* what the user does in the menu bar during one frame: nothing, a click on
\* the Sample Solution checkbox, a click on the menu item of a tutorial
UiInputs == { << "none", 0 >>, << "checkbox", 0 >> }
            \cup ({ "menu" } \X (0 .. (Len(tutorials) - 1)))

\* Application::OnRenderUserInterface and the last barrier of the frame
OnRenderUserInterface ==
    /\ pc = "ui"
    /\ \E input \in UiInputs :
         LET index == IF input[1] = "menu" THEN input[2] ELSE workGraphTutorialIndex
             reset == IF input[1] = "menu" THEN FALSE ELSE workGraphUseSampleSolution
             shown == SolutionCheckboxShown(index)
         IN  /\ (input[1] = "checkbox" => shown)
             /\ workGraphTutorialIndex' = index
             /\ workGraphUseSampleSolution' = IF input[1] = "checkbox" THEN ~reset ELSE reset
    /\ \E t \in ClockReads :
         /\ now' = t
         /\ ui' = [rendered |-> TRUE, banner |-> (errorMessageEndTime >= t), time |-> t,
                   selected |-> \/ workGraphTutorialIndex' # workGraphTutorialIndex
                                \/ workGraphUseSampleSolution' # workGraphUseSampleSolution]
         /\ commandList' = commandList
              \o << [op |-> "RenderUI", banner |-> (errorMessageEndTime >= t)],
                    [op |-> "Transition", res |-> "renderTarget",
                     from |-> "RENDER_TARGET", to |-> "PRESENT"] >>
    /\ pc' = "submit"
    /\ UNCHANGED << caller, exitCode, stderr, tutorials, tutorialVars, inputVars, shaderVars, resources, window, swapchain, swapchainWaitableObject,
                    writableBackbuffer,
                    clearPersistentScratchBuffer, errorMessageEndTime, startTime, workGraph,
                    signaledFenceValue, fence, frameIndex, frameContexts, commandQueue,
                    trackedFiles, source, fsVars, nextId, released, lastBuild, lastRelease,
                    submitsSinceBarrier, frame, frameInfo, pollVars, unreported, unitOps >>

\* the work graph a recorded command list dispatches
DispatchedGraph(list) ==
    LET d == { i \in DOMAIN list : list[i].op = "DispatchGraph" }
    IN  IF d = {} THEN 0 ELSE list[Max(d)].graph

\* Device::ExecuteCurrentFrameCommandList
ExecuteCurrentFrameCommandList ==
    /\ pc = "submit"
    /\ signaledFenceValue' = signaledFenceValue + 1
    /\ commandQueue' = commandQueue
          \o << [type |-> "exec", value |-> frameIndex, graph |-> DispatchedGraph(commandList)],
                [type |-> "signal", value |-> signaledFenceValue + 1, graph |-> 0] >>
    /\ frameContexts' = [frameContexts EXCEPT ![frameIndex] = signaledFenceValue + 1]
    /\ submitsSinceBarrier' = submitsSinceBarrier + 1
    /\ resources' = ExecuteCommands(commandList, 1, resources)
    /\ pc' = "present"
    /\ UNCHANGED << caller, exitCode, stderr, appVars, workGraph, fence, frameIndex, commandList,
                    trackedFiles, source, now, fsVars, nextId, released, lastBuild, lastRelease,
                    frameVars, pollVars, unreported, unitOps >>

\* Swapchain::Present: the frame is queued for presentation behind the
\* frame's commands; the call returns without waiting for it
Present ==
    /\ pc = "present"
    /\ commandQueue' = Append(commandQueue, [type |-> "present", value |-> frameIndex, graph |-> 0])
    \* the swapchain's next buffer becomes the current back buffer
    /\ resources' = [resources EXCEPT !.backbuffer = (@ + 1) % BackbufferCount]
    /\ pc' = "events"
    /\ UNCHANGED << caller, exitCode, stderr, appVars, workGraph, signaledFenceValue, fence,
                    frameIndex, frameContexts, commandList,
                    trackedFiles, source, now, fsVars, nextId, released, lastBuild, lastRelease,
                    submitsSinceBarrier, frameVars, pollVars, unreported, unitOps >>

\* Window::HandleEvents: WM_SIZE and WM_QUIT; the loop condition of Run
HandleEvents ==
    /\ pc = "events"
    /\ \E size \in WindowSizes \cup {window} : window' = size
    /\ \E quit \in BOOLEAN :
         IF quit
           THEN /\ pc' = "quit"
                /\ WaitForDeviceSignal
           ELSE /\ pc' = "frame"
                /\ UNCHANGED devVars
    /\ UNCHANGED << caller, exitCode, stderr, tutorials, tutorialVars, inputVars, shaderVars, resources, swapchain, swapchainWaitableObject,
                    writableBackbuffer,
                    workGraphTutorialIndex, workGraphUseSampleSolution,
                    clearPersistentScratchBuffer, errorMessageEndTime, startTime, workGraph,
                    trackedFiles, source, now, fsVars, nextId, released, lastBuild, lastRelease,
                    submitsSinceBarrier, frameVars, pollVars, unreported, unitOps >>

\* Run after the loop: WaitForDevice has returned; main returns 0
RunReturns ==
    /\ pc = "quit"
    /\ WaitForDeviceReturns
    /\ submitsSinceBarrier' = 0
    /\ pc' = "exit"
    /\ exitCode' = 0
    /\ UNCHANGED << caller, stderr, appVars, resources, workGraph, devVars, trackedFiles, source, now,
                    fsVars, nextId, released, lastBuild, lastRelease, frameVars, pollVars,
                    unreported, unitOps >>

\* ------------------------------------------------------------- unit driver
\* one call of ShaderCompiler::CheckShaderSourceFiles
UnitPoll ==
    /\ pc = "unit"
    /\ unitOps.polls < MaxPolls
    /\ unitOps' = [unitOps EXCEPT !.polls = @ + 1]
    /\ \E failed \in StatFailures :
         /\ PollFiles(failed)
         /\ prevPoll' = lastPoll
         /\ lastPoll' = [valid |-> TRUE, stored |-> trackedFiles, times |-> fileTime,
                         failed |-> failed,
                         reported |-> ChangedFiles(trackedFiles, fileTime, failed),
                         pending |-> unreported,
                         result |-> CheckShaderSourceFilesResult(trackedFiles, fileTime, failed),
                         after |-> CheckShaderSourceFilesStored(trackedFiles, fileTime, failed)]
    /\ UNCHANGED << pc, caller, exitCode, stderr, appVars, resources, workGraph, devVars, source, now,
                    fsVars, nextId, released, lastBuild, lastRelease, submitsSinceBarrier,
                    frameVars >>

\* one call of Application::CreateWorkGraph for a requested tutorial and mode
UnitCreateWorkGraph ==
    /\ pc = "unit"
    /\ unitOps.builds < MaxBuilds
    /\ unitOps' = [unitOps EXCEPT !.builds = @ + 1]
    /\ \E index \in 0 .. (Len(tutorials) - 1), solution \in BOOLEAN :
         /\ workGraphTutorialIndex' = index
         /\ workGraphUseSampleSolution' = solution
    /\ pc' = "cwg"
    /\ caller' = "unit"
    /\ WaitForDeviceSignal
    /\ UNCHANGED << exitCode, stderr, tutorials, tutorialVars, inputVars, shaderVars, resources, window, swapchain, swapchainWaitableObject,
                    writableBackbuffer,
                    clearPersistentScratchBuffer, errorMessageEndTime, startTime, workGraph,
                    trackedFiles, source, now, fsVars, nextId, released, lastBuild, lastRelease,
                    submitsSinceBarrier, frameVars, pollVars, unreported >>

\* ---------------------------------------------------------------------
\* tutorial-4: the recursion tutorial's work graph
\* ---------------------------------------------------------------------

\* [NodeMaxRecursionDepth(4)] of the nodes Snowflake and Sponge
NodeMaxRecursionDepth == 4
\* [MaxRecords(3)] and GetThreadNodeOutputRecords(3) of the Entry node's
\* output to Snowflake; GetThreadNodeOutputRecords(1) of its output to Sponge
EntrySnowflakeRecords == 3
EntrySpongeRecords == 1
\* the records a Snowflake and a Sponge invocation request when it recurses
SnowflakeRecords == 4
SpongeRecords == 8
\* [MaxRecords(n)] of the outputs
MaxRecords == [Entry |-> 3, Snowflake |-> 4, Sponge |-> 8]

RecursiveNodes == {"Snowflake", "Sponge"}

\* recursion levels of a record: 0 for a record of the Entry node; a record
\* on level NodeMaxRecursionDepth + 1 would exceed the declared depth
Levels == 0 .. (NodeMaxRecursionDepth + 1)

NoInvocation == [node |-> "none", level |-> 0, remaining |-> 0, requested |-> 0, drew |-> FALSE]
NoRecursion == [solution |-> FALSE,
                pending |-> [n \in RecursiveNodes |-> [l \in Levels |-> 0]],
                invocation |-> NoInvocation,
                drawn |-> [n \in RecursiveNodes |-> 0]]

\* GetRemainingRecursionLevels() in an invocation for a record on a level
GetRemainingRecursionLevels(level) == NodeMaxRecursionDepth - level

\* nodes that recurse whatever levels remain
OutputRecordsAlways(remaining, records) == records

\* "hasOutput * n" with hasOutput = GetRemainingRecursionLevels() != 0
OutputRecords(remaining, records) == (IF remaining # 0 THEN 1 ELSE 0) * records

\* EntryNode of the tutorial and of its sample solution: three Line records
\* for Snowflake; the solution adds one Box record for Sponge
EntryNode ==
    /\ pc = "dispatch"
    /\ pc' = "graph"
    /\ recursion' =
          [recursion EXCEPT
             !.pending = [n \in RecursiveNodes |-> [l \in Levels |->
                            IF l # 0 THEN 0
                            ELSE IF n = "Snowflake" THEN EntrySnowflakeRecords
                            ELSE IF recursion.solution THEN EntrySpongeRecords
                            ELSE 0]],
             !.invocation = [node |-> "Entry", level |-> 0, remaining |-> 0,
                             requested |-> EntrySnowflakeRecords, drew |-> FALSE]]
    /\ UNCHANGED << caller, exitCode, stderr, applicationVars, sync, resources, workGraph,
                    devVars, trackedFiles, source, now, fsVars, nextId, released, lastBuild,
                    lastRelease, submitsSinceBarrier, frameVars, pollVars, unreported,
                    unitOps >>

\* one thread of a recursive node runs for a pending record of some level:
\* it requests hasOutput * records output records for itself and fills them,
\* or draws
RecursiveNode(node, records) ==
    /\ pc = "graph"
    /\ \E level \in Levels :
         /\ recursion.pending[node][level] > 0
         /\ level <= NodeMaxRecursionDepth
         /\ LET remaining == GetRemainingRecursionLevels(level)
                requested == OutputRecords(remaining, records)
                hasOutput == remaining # 0
            IN  recursion' =
                  [solution |-> recursion.solution,
                   pending |-> [recursion.pending EXCEPT
                                  ![node] = [l \in Levels |->
                                               IF l = level THEN @[l] - 1
                                               ELSE IF l = level + 1 THEN @[l] + requested
                                               ELSE @[l]]],
                   invocation |-> [node |-> node, level |-> level, remaining |-> remaining,
                                   requested |-> requested, drew |-> ~hasOutput],
                   drawn |-> [recursion.drawn EXCEPT
                                ![node] = IF hasOutput THEN @ ELSE @ + 1]]
    /\ UNCHANGED << pc, caller, exitCode, stderr, applicationVars, sync, resources,
                    workGraph, devVars, trackedFiles, source, now, fsVars, nextId, released,
                    lastBuild, lastRelease, submitsSinceBarrier, frameVars, pollVars,
                    unreported, unitOps >>

\* SnowflakeNode: an input Line is split into four lines, or drawn
SnowflakeNode == RecursiveNode("Snowflake", SnowflakeRecords)

\* SpongeNode of the sample solution: an input Box is split into eight boxes,
\* or filled
SpongeNode == RecursiveNode("Sponge", SpongeRecords)


\* ---------------------------------------------------------------------
\* tutorial-5: the synchronization tutorial's sample solution
\* ---------------------------------------------------------------------

numPoints == MaxPoints
groupSize == MaxGroupSize
numGroups == (numPoints + groupSize - 1) \div groupSize

\* [NodeDispatchGrid(numGroups, 1, 1)] [NumThreads(groupSize, 1, 1)]:
\* SV_DispatchThreadID of the threads, their group and SV_GroupThreadID
DispatchThreads == 0 .. (numGroups * groupSize - 1)
Groups == 0 .. (numGroups - 1)
GroupOf(dtid) == dtid \div groupSize
GroupThreadID(dtid) == dtid % groupSize
ThreadsOf(group) == { dtid \in DispatchThreads : GroupOf(dtid) = group }

\* RenderSize of the root constants
RenderSize == << RootConstants.width, RootConstants.height >>

\* positions the noise puts a point at: "pixel" lies within 0.9 * RenderSize
\* around the centre of the render target, inside it or outside
SketchPixels ==
    { << -(RenderSize[1] \div 4), RenderSize[2] + RenderSize[2] \div 4 >>,
      << RenderSize[1] \div 2, RenderSize[2] \div 2 >> }
NoPixel == << 0, 0 >>

\* floor(pixel - radius) and ceil(pixel + radius) with
\* radius = pow(t, 2) * 15 and t = float(dtid) / numPoints
PaddedMin(pixel, dtid) == (pixel * numPoints ^ 2 - 15 * dtid ^ 2) \div (numPoints ^ 2)
PaddedMax(pixel, dtid) == -((-(pixel * numPoints ^ 2 + 15 * dtid ^ 2)) \div (numPoints ^ 2))

\* InterlockedMin and InterlockedMax: the value the destination holds after
InterlockedMin(dest, value) == IF value < dest THEN value ELSE dest
InterlockedMax(dest, value) == IF value > dest THEN value ELSE dest

\* the ComputeBoundingBoxRecord the Entry node writes
EntryRecord == [aabbmin |-> RenderSize, aabbmax |-> << 0, 0 >>]

\* a thread is at the statement it executes next
NoSync == [threads |-> [dtid \in DispatchThreads |-> [at |-> "none", pixel |-> NoPixel]],
           record |-> [aabbmin |-> << 0, 0 >>, aabbmax |-> << 0, 0 >>],
           sharing |-> 0,
           applied |-> 0,
           calls |-> << >>,
           draws |-> << >>]

\* a FinishedCrossGroupSharing that returns true for every group
FinishedCrossGroupSharingAlways(sharing) == TRUE

\* FinishedCrossGroupSharing(): true for the last of the groups that share
\* the record to call it
FinishedCrossGroupSharing(sharing) == sharing = 1

SyncUnchanged ==
    UNCHANGED << caller, exitCode, stderr, applicationVars, recursion, resources, workGraph,
                 devVars, trackedFiles, source, now, fsVars, nextId, released, lastBuild,
                 lastRelease, submitsSinceBarrier, frameVars, pollVars, unreported,
                 unitOps >>

\* EntryNode of tutorial-5/SynchronizationSolution.hlsl: one record for
\* ComputeBoundingBox, which launches its grid of thread groups
SynchronizationEntryNode ==
    /\ pc = "dispatch"
    /\ pc' = "broadcast"
    /\ sync' = [NoSync EXCEPT
                  !.threads = [dtid \in DispatchThreads |->
                                 [at |-> "InterlockedMin.x", pixel |-> NoPixel]],
                  !.record = EntryRecord,
                  !.sharing = numGroups]
    /\ SyncUnchanged

\* a thread of ComputeBoundingBoxNode computes its pixel and applies
\* InterlockedMin to aabbmin.x
ComputeBoundingBoxMinX ==
    /\ pc = "broadcast"
    /\ \E dtid \in DispatchThreads, pixel \in SketchPixels :
         /\ sync.threads[dtid].at = "InterlockedMin.x"
         /\ sync' = [sync EXCEPT
                       !.threads[dtid] = [at |-> "InterlockedMin.y", pixel |-> pixel],
                       !.record.aabbmin[1] = InterlockedMin(@, PaddedMin(pixel[1], dtid)),
                       !.applied = @ + 1]
    /\ UNCHANGED pc
    /\ SyncUnchanged

\* ... InterlockedMin to aabbmin.y
ComputeBoundingBoxMinY ==
    /\ pc = "broadcast"
    /\ \E dtid \in DispatchThreads :
         /\ sync.threads[dtid].at = "InterlockedMin.y"
         /\ sync' = [sync EXCEPT
                       !.threads[dtid].at = "InterlockedMax.x",
                       !.record.aabbmin[2] =
                           InterlockedMin(@, PaddedMin(sync.threads[dtid].pixel[2], dtid)),
                       !.applied = @ + 1]
    /\ UNCHANGED pc
    /\ SyncUnchanged

\* ... InterlockedMax to aabbmax.x
ComputeBoundingBoxMaxX ==
    /\ pc = "broadcast"
    /\ \E dtid \in DispatchThreads :
         /\ sync.threads[dtid].at = "InterlockedMax.x"
         /\ sync' = [sync EXCEPT
                       !.threads[dtid].at = "InterlockedMax.y",
                       !.record.aabbmax[1] =
                           InterlockedMax(@, PaddedMax(sync.threads[dtid].pixel[1], dtid)),
                       !.applied = @ + 1]
    /\ UNCHANGED pc
    /\ SyncUnchanged

\* ... InterlockedMax to aabbmax.y, and arrives at the barrier
ComputeBoundingBoxMaxY ==
    /\ pc = "broadcast"
    /\ \E dtid \in DispatchThreads :
         /\ sync.threads[dtid].at = "InterlockedMax.y"
         /\ sync' = [sync EXCEPT
                       !.threads[dtid].at = "Barrier",
                       !.record.aabbmax[2] =
                           InterlockedMax(@, PaddedMax(sync.threads[dtid].pixel[2], dtid)),
                       !.applied = @ + 1]
    /\ UNCHANGED pc
    /\ SyncUnchanged

\* Barrier(NODE_INPUT_MEMORY, DEVICE_SCOPE | GROUP_SYNC): the threads of a
\* group go on once all of them have arrived
ComputeBoundingBoxBarrier ==
    /\ pc = "broadcast"
    /\ \E group \in Groups :
         /\ \A dtid \in ThreadsOf(group) : sync.threads[dtid].at = "Barrier"
         /\ sync' = [sync EXCEPT
                       !.threads = [dtid \in DispatchThreads |->
                                      IF GroupOf(dtid) = group
                                      THEN [@[dtid] EXCEPT !.at = "FinishedCrossGroupSharing"]
                                      ELSE @[dtid]]]
    /\ UNCHANGED pc
    /\ SyncUnchanged

\* "if(!inputRecord.FinishedCrossGroupSharing()) return;" of a group, and
\* "if(gtid == 0)" in the group that goes on
ComputeBoundingBoxFinished ==
    /\ pc = "broadcast"
    /\ \E group \in Groups :
         /\ \A dtid \in ThreadsOf(group) : sync.threads[dtid].at = "FinishedCrossGroupSharing"
         /\ LET last == FinishedCrossGroupSharing(sync.sharing)
            IN  sync' = [sync EXCEPT
                           !.threads = [dtid \in DispatchThreads |->
                                          IF GroupOf(dtid) # group THEN @[dtid]
                                          ELSE IF last /\ GroupThreadID(dtid) = 0
                                          THEN [@[dtid] EXCEPT !.at = "DrawRect"]
                                          ELSE [@[dtid] EXCEPT !.at = "return"]],
                           !.sharing = @ - 1,
                           !.calls = Append(@, group)]
    /\ UNCHANGED pc
    /\ SyncUnchanged

\* DrawRect(inputRecord.Get().aabbmin, inputRecord.Get().aabbmax, 1)
ComputeBoundingBoxDrawRect ==
    /\ pc = "broadcast"
    /\ \E dtid \in DispatchThreads :
         /\ sync.threads[dtid].at = "DrawRect"
         /\ sync' = [sync EXCEPT
                       !.threads[dtid].at = "return",
                       !.draws = Append(@, [group |-> GroupOf(dtid),
                                            gtid |-> GroupThreadID(dtid),
                                            aabbmin |-> sync.record.aabbmin,
                                            aabbmax |-> sync.record.aabbmax,
                                            applied |-> sync.applied])]
    /\ UNCHANGED pc
    /\ SyncUnchanged

ComputeBoundingBoxNode ==
    \/ ComputeBoundingBoxMinX
    \/ ComputeBoundingBoxMinY
    \/ ComputeBoundingBoxMaxX
    \/ ComputeBoundingBoxMaxY
    \/ ComputeBoundingBoxBarrier
    \/ ComputeBoundingBoxFinished
    \/ ComputeBoundingBoxDrawRect

\* ---------------------------------------------------------- specifications
\* the program of the live work graph requests backing memory
RequestsBackingMemory == workGraph.id # 0 => workGraph.maxSizeInBytes > 0

InitProgram ==
    /\ caller = "none"
    /\ exitCode = -1
    /\ stderr = ""
    /\ workGraph = NoGraph
    /\ workGraphTutorialIndex = 0
    /\ workGraphUseSampleSolution = FALSE
    /\ clearPersistentScratchBuffer = TRUE
    /\ errorMessageEndTime = 0
    /\ startTime = 0
    /\ signaledFenceValue = 0
    /\ fence = 0
    /\ frameIndex = 0
    /\ frameContexts = [i \in 0 .. (BufferedFramesCount - 1) |-> 0]
    /\ commandQueue = << >>
    /\ commandList = << >>
    /\ trackedFiles = [p \in Paths |-> Untracked]
    /\ source = NoSource
    /\ now = 0
    /\ fileTime = [p \in Paths |-> 0]
    /\ fileContent = [p \in Paths |-> "ok"]
    /\ writes = 0
    /\ nextId = 1
    /\ released = {}
    /\ lastBuild = NoBuild
    /\ lastRelease = NoRelease
    /\ submitsSinceBarrier = 0
    /\ frame = 0
    /\ frameInfo = NoFrameInfo
    /\ lastPoll = NoPoll
    /\ prevPoll = NoPoll
    /\ unreported = {}
    /\ ui = NoUi
    /\ unitOps = [polls |-> 0, builds |-> 0]
    /\ resources = NoResources

\* ... with no mouse button and no key down
InitCommon ==
    /\ InitProgram
    /\ inputDown = [i \in Inputs |-> FALSE]
    /\ recursion = NoRecursion
    /\ sync = NoSync

\* the process starts
Init ==
    /\ InitCommon
    /\ pc = "main"
    /\ folder \in { << >>, PlaygroundFolder }
    /\ tutorials = LoadTutorials(folder)
    /\ tutorialsLoaded = TRUE
    /\ getTutorials = [calls |-> 1, listing |-> folder, first |-> tutorials,
                       returned |-> tutorials]
    /\ window = << 0, 0 >>
    /\ swapchain = << 0, 0 >>
    /\ swapchainWaitableObject = 0
    /\ writableBackbuffer = << 0, 0 >>

\* the GPU has finished everything the host has queued
GpuIdle == commandQueue = << >>

\* the files the first tutorial's build tracks
Watched == { GetShaderSourceFilePath(TutorialsFolder[1].shaderFileName), HeaderPath }

\* Spec: the application on a GPU that finishes what is queued before the
\* host's next step, in a window that is not resized, with a clock that every
\* read finds one tick later.  The editor's saves are placed where their order
\* with the host's file accesses matters: before the poll of a frame, before
\* the load of a build, between the load and the timestamp of a build.
Next ==
    \/ GpuIdle /\ Main /\ frameIndex' = 0 /\ now' = now + 1
    \/ GpuIdle /\ CwgLoad /\ now' <= now + 1
    \/ GpuIdle /\ CwgRetry /\ now' <= now + 1
    \/ GpuIdle /\ CwgCompile /\ now' <= now + 1 /\ RequestsBackingMemory'
    \/ GpuIdle /\ FrameStart
    \/ GpuIdle /\ Poll
    \/ GpuIdle /\ SwitchCheck
    \/ GpuIdle /\ GetNextFrameCommandList
    \/ GpuIdle /\ GetNextRenderTarget
    \/ GpuIdle /\ OnRender
    \/ GpuIdle /\ OnRenderUserInterface /\ now' = now + 1
    \/ GpuIdle /\ ExecuteCurrentFrameCommandList
    \/ GpuIdle /\ Present
    \/ GpuIdle /\ HandleEvents /\ window' = window /\ (pc' = "frame" => frame < MaxFrames)
    \/ GpuIdle /\ RunReturns
    \/ GpuIdle /\ WriteFile /\ pc \in {"frame", "cwg", "cwg_compile"}
          /\ \A q \in Paths : fileContent'[q] # "plain"
    \/ GpuStep

Spec == Init /\ [][Next]_vars

\* SpecClock: as Spec, with a clock whose reads in Run are one tick or
\* MaxClockStep ticks apart; the editor saves the first tutorial's source
\* between frames
NextClock ==
    \/ GpuIdle /\ Main /\ frameIndex' = 0 /\ now' = now + 1
    \/ GpuIdle /\ CwgLoad
    \/ GpuIdle /\ CwgRetry
    \/ GpuIdle /\ CwgCompile /\ RequestsBackingMemory'
    \/ GpuIdle /\ FrameStart
    \/ GpuIdle /\ Poll
    \/ GpuIdle /\ SwitchCheck
    \/ GpuIdle /\ GetNextFrameCommandList
    \/ GpuIdle /\ GetNextRenderTarget
    \/ GpuIdle /\ OnRender
    \/ GpuIdle /\ OnRenderUserInterface
    \/ GpuIdle /\ ExecuteCurrentFrameCommandList
    \/ GpuIdle /\ Present
    \/ GpuIdle /\ HandleEvents /\ window' = window /\ (pc' = "frame" => frame < MaxFrames)
    \/ GpuIdle /\ RunReturns
    \/ GpuIdle /\ WriteFile /\ pc = "frame"
          /\ \A p \in Paths \ {GetShaderSourceFilePath(TutorialsFolder[1].shaderFileName)} :
                fileTime'[p] = fileTime[p]
          /\ \A q \in Paths : fileContent'[q] \notin {"noentry", "plain"}
    \/ GpuStep

SpecClock == Init /\ [][NextClock]_vars

\* SpecDevice: the application on a GPU that runs asynchronously, in a window
\* that is resized; the shader files are left alone and every read of the
\* clock is one tick after the previous one
NextDevice ==
    \/ Main /\ now' = now + 1
    \/ CwgLoad /\ now' <= now + 1
    \/ CwgRetry /\ now' <= now + 1
    \/ CwgCompile /\ now' <= now + 1
    \/ FrameStart
    \/ OnResize
    \/ Poll
    \/ SwitchCheck
    \/ GetNextFrameCommandList
    \/ GetNextRenderTarget
    \/ OnRender
    \/ OnRenderUserInterface /\ now' = now + 1
    \/ ExecuteCurrentFrameCommandList
    \/ Present
    \/ HandleEvents /\ (pc' = "frame" => frame < MaxFrames)
    \/ RunReturns
    \/ GpuStep

SpecDevice == Init /\ [][NextDevice]_vars

\* a ShaderCompiler and a Device, no work graph yet
InitUnit ==
    /\ InitCommon
    /\ pc = "unit"
    /\ folder = PlaygroundFolder
    /\ tutorials = LoadTutorials(folder)
    /\ tutorialsLoaded = TRUE
    /\ getTutorials = [calls |-> 1, listing |-> folder, first |-> tutorials,
                       returned |-> tutorials]
    /\ window = << DefaultWindowWidth, DefaultWindowHeight >>
    /\ swapchain = << DefaultWindowWidth, DefaultWindowHeight >>
    /\ swapchainWaitableObject = 0
    /\ writableBackbuffer = << DefaultWindowWidth, DefaultWindowHeight >>

\* SpecUnit: CheckShaderSourceFiles and builds of the first tutorial called in
\* any order while the editor saves the files that build tracks
NextUnit ==
    \/ GpuIdle /\ UnitPoll
    \/ GpuIdle /\ UnitCreateWorkGraph /\ workGraphTutorialIndex' = 0
          /\ ~workGraphUseSampleSolution'
    \/ GpuIdle /\ CwgLoad
    \/ GpuIdle /\ CwgRetry
    \/ GpuIdle /\ CwgCompile /\ RequestsBackingMemory'
    \/ GpuIdle /\ WriteFile /\ pc \in {"unit", "cwg_compile"}
          /\ \A p \in Paths \ Watched : fileTime'[p] = fileTime[p]
          /\ \A q \in Paths : fileContent'[q] # "plain"
    \/ GpuStep

SpecUnit == InitUnit /\ [][NextUnit]_vars

\* SpecBuild: CreateWorkGraph called for any tutorial and mode while the
\* editor saves files
NextBuild ==
    \/ GpuIdle /\ UnitCreateWorkGraph
    \/ GpuIdle /\ CwgLoad
    \/ GpuIdle /\ CwgRetry
    \/ GpuIdle /\ CwgCompile /\ RequestsBackingMemory'
    \/ GpuIdle /\ WriteFile /\ pc \in {"unit", "cwg_compile"}
    \/ GpuStep

SpecBuild == InitUnit /\ [][NextBuild]_vars

\* SpecPipeline: steady frames on a GPU that runs asynchronously: the window
\* keeps its size, the shader files are left alone, the user selects nothing
\* and every read of the clock is one tick after the previous one
MainThread ==
    \/ Main /\ now' = now + 1
    \/ CwgLoad /\ now' <= now + 1
    \/ CwgRetry /\ now' <= now + 1
    \/ CwgCompile /\ now' <= now + 1
    \/ FrameStart
    \/ Poll /\ pc' = "switch"
    \/ SwitchCheck
    \/ GetNextFrameCommandList
    \/ GetNextRenderTarget
    \/ OnRender
    \/ OnRenderUserInterface /\ now' = now + 1
          /\ UNCHANGED << workGraphTutorialIndex, workGraphUseSampleSolution >>
    \/ ExecuteCurrentFrameCommandList
    \/ Present
    \/ HandleEvents /\ window' = window /\ (pc' = "frame" => frame < MaxPipelineFrames)
    \/ RunReturns

NextPipeline ==
    \/ MainThread
    \/ GpuStep

SpecPipeline == Init /\ [][NextPipeline]_vars

\* SpecLive: SpecPipeline on a GPU that eventually takes every item of the
\* command queue (command lists, fence signals, presents), with a main thread
\* that runs whenever it is not blocked in a wait
SpecLive == Init /\ [][NextPipeline]_vars /\ WF_vars(GpuStep) /\ WF_vars(MainThread)

\* SpecSession: as Spec, over MaxSessionFrames frames in which the user
\* selects tutorials and the editor saves files between frames
NextSession ==
    \/ GpuIdle /\ Main /\ frameIndex' = 0 /\ now' = now + 1
    \/ GpuIdle /\ CwgLoad /\ now' <= now + 1
    \/ GpuIdle /\ CwgRetry /\ now' <= now + 1
    \/ GpuIdle /\ CwgCompile /\ now' <= now + 1 /\ RequestsBackingMemory'
    \/ GpuIdle /\ FrameStart
    \/ GpuIdle /\ Poll
    \/ GpuIdle /\ SwitchCheck
    \/ GpuIdle /\ GetNextFrameCommandList
    \/ GpuIdle /\ GetNextRenderTarget
    \/ GpuIdle /\ OnRender
    \/ GpuIdle /\ OnRenderUserInterface /\ now' = now + 1
    \/ GpuIdle /\ ExecuteCurrentFrameCommandList
    \/ GpuIdle /\ Present
    \/ GpuIdle /\ HandleEvents /\ window' = window
          /\ (pc' = "frame" => frame < MaxSessionFrames)
    \/ GpuIdle /\ RunReturns
    \/ GpuIdle /\ WriteFile /\ pc = "frame"
          /\ \A q \in Paths : fileContent'[q] \in {"ok", "bad"}
    \/ GpuStep

SpecSession == Init /\ [][NextSession]_vars

\* Application::GetTutorials, called for the first time or again
GetTutorials ==
    /\ pc = "tutorials"
    /\ getTutorials.calls < MaxCalls
    /\ tutorials' = GetTutorialsStatic(tutorialsLoaded, tutorials, folder)
    /\ tutorialsLoaded' = TRUE
    /\ getTutorials' = [calls |-> getTutorials.calls + 1,
                        listing |-> IF tutorialsLoaded THEN getTutorials.listing ELSE folder,
                        first |-> IF getTutorials.calls = 0 THEN tutorials'
                                                            ELSE getTutorials.first,
                        returned |-> tutorials']
    /\ UNCHANGED << pc, caller, exitCode, stderr, folder, inputVars, shaderVars, resources, window, swapchain,
                    swapchainWaitableObject, writableBackbuffer, workGraphTutorialIndex,
                    workGraphUseSampleSolution, clearPersistentScratchBuffer,
                    errorMessageEndTime, startTime, workGraph, devVars, trackedFiles, source,
                    now, fsVars, nextId, released, lastBuild, lastRelease, submitsSinceBarrier,
                    frameVars, pollVars, unreported, unitOps >>

\* a file appears in the tutorials folder, behind the entries the directory
\* iterator yields so far
AddFile ==
    /\ pc = "tutorials"
    /\ Len(folder) < MaxEntries
    /\ \E e \in EntryPool :
         /\ \A k \in DOMAIN folder : folder[k] # e
         /\ folder' = Append(folder, e)
    /\ UNCHANGED << pc, caller, exitCode, stderr, tutorials, tutorialsLoaded, getTutorials,
                    inputVars, shaderVars, resources, window, swapchain,
                    swapchainWaitableObject, writableBackbuffer, workGraphTutorialIndex,
                    workGraphUseSampleSolution, clearPersistentScratchBuffer,
                    errorMessageEndTime, startTime, workGraph, devVars, trackedFiles, source,
                    now, fsVars, nextId, released, lastBuild, lastRelease, submitsSinceBarrier,
                    frameVars, pollVars, unreported, unitOps >>

\* the tutorials folders of at most MaxEntries entries, in every order the
\* directory iterator can yield them
Listings ==
    UNION { { l \in [1 .. n -> EntryPool] : \A i, j \in 1 .. n : i # j => l[i] # l[j] }
            : n \in 0 .. MaxEntries }

\* a process that has not called GetTutorials yet
InitTutorials ==
    /\ InitCommon
    /\ pc = "tutorials"
    /\ folder \in Listings
    /\ tutorials = << >>
    /\ tutorialsLoaded = FALSE
    /\ getTutorials = [calls |-> 0, listing |-> << >>, first |-> << >>, returned |-> << >>]
    /\ window = << 0, 0 >>
    /\ swapchain = << 0, 0 >>
    /\ swapchainWaitableObject = 0
    /\ writableBackbuffer = << 0, 0 >>

\* SpecTutorials: calls of GetTutorials on tutorials folders that gain files
NextTutorials ==
    \/ GetTutorials
    \/ AddFile

SpecTutorials == InitTutorials /\ [][NextTutorials]_vars

\* Application::OnRender, the part that computes and pushes the root
\* constants
PushRootConstants ==
    /\ pc = "input"
    /\ commandList' = << RootConstants >>
    /\ pc' = "pushed"
    /\ UNCHANGED << caller, exitCode, stderr, appVars, resources, workGraph, signaledFenceValue, fence,
                    frameIndex, frameContexts, commandQueue, trackedFiles, source,
                    now, fsVars, nextId, released, lastBuild, lastRelease, submitsSinceBarrier,
                    frameVars, pollVars, unreported, unitOps >>

\* SpecInput: OnRender pushes the root constants under every combination of
\* mouse buttons and keys
InitInput ==
    /\ InitProgram
    /\ pc = "input"
    /\ inputDown \in [Inputs -> BOOLEAN]
    /\ recursion = NoRecursion
    /\ sync = NoSync
    /\ folder = PlaygroundFolder
    /\ tutorials = LoadTutorials(folder)
    /\ tutorialsLoaded = TRUE
    /\ getTutorials = [calls |-> 1, listing |-> folder, first |-> tutorials,
                       returned |-> tutorials]
    /\ window = << DefaultWindowWidth, DefaultWindowHeight >>
    /\ swapchain = window
    /\ swapchainWaitableObject = BackbufferCount
    /\ writableBackbuffer = window

NextInput == PushRootConstants

SpecInput == InitInput /\ [][NextInput]_vars

\* the recursion levels on which records are pending for a node
PendingLevels(node) == { l \in Levels : recursion.pending[node][l] > 0 }

\* the scheduler runs, of the pending records of a node, one of the lowest or
\* one of the highest recursion level
Scheduled(node) ==
    recursion'.invocation.level
        \in { l \in PendingLevels(node) : \A m \in PendingLevels(node) : l <= m }
            \cup { l \in PendingLevels(node) : \A m \in PendingLevels(node) : l >= m }

\* the scheduler runs a pending record of the highest recursion level
ScheduledDepthFirst(node) ==
    \A m \in PendingLevels(node) : recursion'.invocation.level >= m

\* a dispatch of the graph of tutorial-4/Recursion.hlsl or of its sample
\* solution
InitRecursion ==
    /\ InitProgram
    /\ pc = "dispatch"
    /\ inputDown = [i \in Inputs |-> FALSE]
    /\ recursion \in { [NoRecursion EXCEPT !.solution = b] : b \in BOOLEAN }
    /\ sync = NoSync
    /\ folder = PlaygroundFolder
    /\ tutorials = LoadTutorials(folder)
    /\ tutorialsLoaded = TRUE
    /\ getTutorials = [calls |-> 1, listing |-> folder, first |-> tutorials,
                       returned |-> tutorials]
    /\ window = << DefaultWindowWidth, DefaultWindowHeight >>
    /\ swapchain = window
    /\ swapchainWaitableObject = BackbufferCount
    /\ writableBackbuffer = window

\* SpecRecursion: one dispatch of the recursion tutorial's graph; the Sponge
\* records run once no Snowflake record is pending, deepest level first
NextRecursion ==
    \/ EntryNode
    \/ SnowflakeNode /\ Scheduled("Snowflake")
    \/ SpongeNode /\ PendingLevels("Snowflake") = {} /\ ScheduledDepthFirst("Sponge")

SpecRecursion == InitRecursion /\ [][NextRecursion]_vars


\* a dispatch of the graph of the synchronization tutorial's sample solution
InitSynchronization ==
    /\ InitProgram
    /\ pc = "dispatch"
    /\ inputDown = [i \in Inputs |-> FALSE]
    /\ recursion = NoRecursion
    /\ sync = NoSync
    /\ folder = PlaygroundFolder
    /\ tutorials = LoadTutorials(folder)
    /\ tutorialsLoaded = TRUE
    /\ getTutorials = [calls |-> 1, listing |-> folder, first |-> tutorials,
                       returned |-> tutorials]
    /\ window = << DefaultWindowWidth, DefaultWindowHeight >>
    /\ swapchain = window
    /\ swapchainWaitableObject = BackbufferCount
    /\ writableBackbuffer = window

\* SpecSynchronization: one dispatch; the threads of all groups interleave
NextSynchronization ==
    \/ SynchronizationEntryNode
    \/ ComputeBoundingBoxNode

SpecSynchronization == InitSynchronization /\ [][NextSynchronization]_vars

\* ------------------------------------------------------------------ claims
\* positions of Run at which commandList holds the commands of this frame's
\* OnRender
Rendered == pc \in {"ui", "submit", "present", "events"}

\* the last build was a build of Run (hot reload or switch) and failed
RuntimeBuildFailed == lastBuild.caller \in {"reload", "switch"} /\ ~lastBuild.success

\* the clears of the persistent scratch buffer in a command list
PersistentClears(list) ==
    { i \in DOMAIN list : list[i].op = "ClearUAV" /\ list[i].res = "persistentScratchBuffer" }

\* the dispatches in a command list
Dispatches(list) == { i \in DOMAIN list : list[i].op = "DispatchGraph" }

\* C1: a build that fails at runtime, while an instance is live, makes
\* CreateWorkGraph return false and leaves the live instance as it was (same
\* instance, tutorial index, mode and entry index); the process does not
\* terminate with an error, and the frames dispatch that instance until a later
\* build succeeds.
C1_FailedBuildKeepsInstance ==
    RuntimeBuildFailed =>
        /\ lastBuild.returned
        /\ exitCode # 1
        /\ lastBuild.before.id # 0
        /\ workGraph.id = lastBuild.before.id
        /\ workGraph.tutorialIndex = lastBuild.before.tutorialIndex
        /\ workGraph.sampleSolution = lastBuild.before.sampleSolution
        /\ workGraph.entryPointIndex = lastBuild.before.entryPointIndex
        /\ (Rendered => DispatchedGraph(commandList) = lastBuild.before.id)

\* C1: a hot reload failed in the first frame and the second frame has
\* dispatched the instance that was live before it
C1_Witness ==
    /\ lastBuild.caller = "reload" /\ ~lastBuild.success
    /\ frame = 2 /\ frameInfo.builds = 0 /\ pc = "events"
    /\ DispatchedGraph(commandList) = lastBuild.before.id

\* C2: when a build replaces the live instance, the old instance is released
\* after WaitForDevice has returned with no command list submitted in between:
\* the fence has reached every slot's waitFenceValue and no command list still
\* in the queue refers to the old instance, nor to any released instance.
C2_ReleaseAfterBarrier ==
    /\ lastRelease.id # 0 =>
          /\ lastRelease.submits = 0
          /\ \A w \in lastRelease.waits : lastRelease.fence >= w
          /\ lastRelease.id \notin lastRelease.inFlight
    /\ InFlightGraphs \cap released = {}

\* C2: an instance was released after frames that dispatch it had been
\* submitted
C2_Witness ==
    /\ lastRelease.id # 0
    /\ \E w \in lastRelease.waits : w > 0
    /\ workGraph.id # lastRelease.id

\* C3: the process exits with 1 and a message on stderr exactly when
\* construction threw (before the first frame); a failed build of Run returns
\* and never ends the process; once frames have run the process exits only
\* through the window being closed, with 0.
C3_ExitCodes ==
    /\ pc = "exit" => exitCode \in {0, 1}
    /\ exitCode = 1 => (pc = "exit" /\ frame = 0 /\ stderr # "")
    /\ exitCode = 0 => (pc = "exit" /\ frame >= 1)
    /\ (lastBuild.caller = "ctor" /\ ~lastBuild.success) =>
          (pc = "exit" /\ exitCode = 1 /\ stderr = lastBuild.error /\ ~lastBuild.returned)
    /\ RuntimeBuildFailed => (lastBuild.returned /\ exitCode # 1)

\* C3: a switch failed at runtime and the process later returned 0
C3_Witness ==
    /\ pc = "exit" /\ exitCode = 0
    /\ lastBuild.caller = "switch" /\ ~lastBuild.success

\* C4: in every frame in which the running program changes to another tutorial
\* or mode, the persistent scratch buffer is cleared exactly once, before the
\* dispatch, and the start time is reset in that frame (also when it is the hot
\* reload that builds the requested program).
C4_SwitchClearsAndResets ==
    (/\ Rendered
     /\ \/ workGraph.tutorialIndex # frameInfo.identity.tutorialIndex
        \/ workGraph.sampleSolution # frameInfo.identity.sampleSolution)
    => /\ Cardinality(PersistentClears(commandList)) = 1
       /\ \A i \in PersistentClears(commandList) :
             \A j \in Dispatches(commandList) : i < j
       /\ startTime > frameInfo.clock

\* C5 as stated: a frame with no file change detected and no switch requested
\* builds nothing and records no clear of the persistent scratch buffer, the
\* first frame included.
C5_SteadyFrameAsStated ==
    (Rendered /\ ~frameInfo.changed /\ ~frameInfo.switchRequested) =>
        /\ frameInfo.builds = 0
        /\ PersistentClears(commandList) = {}

\* C5 amended: a frame other than the first with no file change detected and
\* no switch requested builds nothing and clears only the writable target and
\* the transient scratch buffer; the first frame after startup clears the
\* persistent scratch buffer once.
C5_SteadyFrame ==
    /\ (Rendered /\ frame >= 2 /\ ~frameInfo.changed /\ ~frameInfo.switchRequested) =>
          /\ frameInfo.builds = 0
          /\ PersistentClears(commandList) = {}
          /\ { commandList[i].res : i \in { j \in DOMAIN commandList :
                                              commandList[j].op = "ClearUAV" } }
                = {"writableBackbuffer", "scratchBuffer"}
    /\ (Rendered /\ frame = 1) => Cardinality(PersistentClears(commandList)) = 1

\* C5: a second frame without file change and without switch has been rendered
C5_Witness ==
    /\ frame = 2 /\ pc = "submit"
    /\ ~frameInfo.changed /\ ~frameInfo.switchRequested
    /\ workGraph.id = frameInfo.identity.id

\* the two last calls of CheckShaderSourceFiles were made in succession: no
\* file was modified and no build changed the table between them
Successive ==
    /\ prevPoll.valid /\ lastPoll.valid
    /\ prevPoll.times = lastPoll.times
    /\ prevPoll.after = lastPoll.stored

\* C6: of two successive calls of CheckShaderSourceFiles with no modification
\* between them, the second reports no file whose stat succeeded in the first;
\* it returns true only for files whose stat failed in the first call, and
\* returns false if no stat failed in the first call.
C6_SecondPollReportsNothing ==
    Successive =>
        /\ lastPoll.reported \cap
              ({ p \in Paths : prevPoll.stored[p] # Untracked } \ prevPoll.failed) = {}
        /\ lastPoll.result => (lastPoll.reported # {} /\ lastPoll.reported \subseteq prevPoll.failed)
        /\ prevPoll.failed = {} => ~lastPoll.result

\* C6: the first of two successive calls returned true, the second false
C6_Witness ==
    /\ Successive
    /\ prevPoll.result /\ prevPoll.failed = {}
    /\ ~lastPoll.result /\ lastPoll.failed = {}

\* C7: a call of CheckShaderSourceFiles reports exactly the tracked files
\* modified since their timestamp was last recorded whose stat succeeds, returns
\* true iff it reports one, and stores their new timestamps; a file whose stat
\* fails keeps its stored timestamp.  A tracked file has a modification still to
\* be reported exactly when its stored timestamp differs from its current one,
\* so the next call whose stat succeeds reports it and no later call does.  No
\* call ends the process: only a build that throws does.
C7_ModificationReportedOnce ==
    /\ lastPoll.valid =>
          /\ lastPoll.reported = lastPoll.pending \ lastPoll.failed
          /\ lastPoll.result = (lastPoll.reported # {})
          /\ \A p \in lastPoll.reported : lastPoll.after[p] = lastPoll.times[p]
          /\ \A p \in lastPoll.failed : lastPoll.after[p] = lastPoll.stored[p]
    /\ \A p \in Paths :
          p \in unreported <=> (trackedFiles[p] # Untracked /\ trackedFiles[p] # fileTime[p])
    /\ (pc = "exit") => (lastBuild.caller # "none" /\ ~lastBuild.returned)

\* C7: a modification whose stat failed in one call was reported by the next
C7_Witness ==
    /\ prevPoll.valid /\ lastPoll.valid
    /\ prevPoll.pending \cap prevPoll.failed # {}
    /\ ~prevPoll.result
    /\ prevPoll.pending \cap prevPoll.failed \subseteq lastPoll.reported
    /\ unreported = {}

\* C8: a build of a program without the entry node, or of the sample solution
\* of a tutorial that has none, fails with an error message and yields no
\* instance: with no instance live the exception leaves CreateWorkGraph and the
\* process terminates with 1; with an instance live CreateWorkGraph returns
\* false and that instance stays live.
C8_NoEntryNoInstance ==
    (/\ lastBuild.caller # "none"
     /\ \/ lastBuild.content = "noentry"
        \/ (lastBuild.solution /\ Tutorial(lastBuild.index).solutionShaderFileName = ""))
    => /\ ~lastBuild.success
       /\ lastBuild.error # ""
       /\ (lastBuild.content = "" =>
              lastBuild.error = "selected tutorial does not provide a sample solution.")
       /\ workGraph.id = lastBuild.before.id
       /\ IF lastBuild.before.id = 0
            THEN ~lastBuild.returned /\ pc = "exit" /\ exitCode = 1 /\ stderr = lastBuild.error
            ELSE lastBuild.returned /\ exitCode # 1
                 /\ workGraph.tutorialIndex = lastBuild.before.tutorialIndex
                 /\ workGraph.sampleSolution = lastBuild.before.sampleSolution

\* C8: with an instance live, a build found no entry node and the instance
\* stayed live
C8_Witness ==
    /\ lastBuild.content = "noentry"
    /\ lastBuild.error = "work graph does not contain an entry node"
    /\ lastBuild.before.id # 0
    /\ workGraph.id = lastBuild.before.id

\* C9: the user interface of a frame shows the error banner exactly when the
\* last build was a build of Run that failed, at a time t, and the frame's
\* clock read is at most t + 5 s; so a later success hides it, a later failure
\* re-arms it, and after startup none is shown.
C9_BannerWindow ==
    ui.rendered =>
        ui.banner = (RuntimeBuildFailed /\ ui.time <= lastBuild.time + ErrorMessageDuration)

\* C9: a frame was rendered more than 5 s after the failure, without banner
C9_Witness ==
    /\ ui.rendered /\ ~ui.banner
    /\ RuntimeBuildFailed
    /\ ui.time > lastBuild.time + ErrorMessageDuration

\* C10: a frame that starts with window dimensions different from the
\* swapchain's does not terminate the process, and at its dispatch the writable
\* target, the swapchain and the viewport constants equal the window's
\* dimensions.
C10_ResizeHandled ==
    frameInfo.resize =>
        /\ pc = "exit" => exitCode = 0
        /\ Rendered =>
              /\ writableBackbuffer = window
              /\ swapchain = window
              /\ \A i \in DOMAIN commandList :
                    commandList[i].op = "SetRootConstants" =>
                        << commandList[i].width, commandList[i].height >> = window

\* the SetProgram commands of a command list
Programs(list) == { i \in DOMAIN list : list[i].op = "SetProgram" }

\* C11: a frame that has been rendered has recorded exactly one SetProgram and
\* one DispatchGraph, in this order, both of the application's work graph,
\* which exists and has not been released; the dispatch launches one record of
\* stride 0 at the entry-point index of that work graph.  No command list ever
\* names two work graphs.
C11_OneDispatchPerFrame ==
    /\ Rendered =>
          /\ Cardinality(Programs(commandList)) = 1
          /\ Cardinality(Dispatches(commandList)) = 1
          /\ workGraph.id # 0
          /\ workGraph.id \notin released
          /\ \A i \in Programs(commandList) :
                /\ commandList[i].graph = workGraph.id
                /\ i + 1 \in Dispatches(commandList)
          /\ \A i \in Dispatches(commandList) :
                /\ commandList[i].graph = workGraph.id
                /\ commandList[i].records = 1
                /\ commandList[i].recordStride = 0
                /\ commandList[i].entry = workGraph.entryPointIndex
                /\ commandList[i].entry # InvalidEntrypointIndex
    /\ Cardinality({ commandList[i].graph : i \in Programs(commandList) \cup Dispatches(commandList) }) <= 1

\* C11: the second frame is rendered with a work graph that replaced the
\* first frame's during the frame
C11_Witness ==
    /\ pc = "submit"
    /\ frame = 2
    /\ frameInfo.replaced > 0
    /\ released # {}
    /\ Cardinality(Dispatches(commandList)) = 1

\* C12: a work graph carries the initialize flag from its construction until
\* its first Dispatch and never afterwards: the flag is set exactly while the
\* instance has not been dispatched, a step that leaves the instance in place
\* never sets it again, and the SetProgram a frame records carries the flag
\* exactly when the instance was not dispatched before the frame, which is
\* the case of every instance built during the frame.
C12_InitializeOnFirstDispatch ==
    /\ [](workGraph.id # 0 => (workGraph.initialize = ~workGraph.dispatched))
    /\ [](Rendered =>
            \A i \in Programs(commandList) :
               commandList[i].initialize =
                  ~(frameInfo.identity.id = workGraph.id /\ frameInfo.identity.dispatched))
    /\ [][(workGraph'.id = workGraph.id /\ ~workGraph.initialize) => ~workGraph'.initialize]_vars
    /\ [][(workGraph'.id # workGraph.id /\ workGraph'.id # 0) => workGraph'.initialize]_vars

\* C12: a frame dispatched a replacement built during that frame with the
\* flag set, after an earlier frame had dispatched its predecessor
C12_Witness ==
    /\ pc = "submit"
    /\ frame = 2
    /\ frameInfo.identity.dispatched
    /\ frameInfo.identity.id # workGraph.id
    /\ \E i \in Programs(commandList) : commandList[i].initialize
    /\ ~workGraph.initialize

\* the positions of the commands of one kind in a command list
Commands(list, op) == { i \in DOMAIN list : list[i].op = op }

\* every command of kind a precedes every command of kind b
Precede(list, a, b) == \A i \in Commands(list, a), j \in Commands(list, b) : i < j

\* the steps of Run from one position to the next; a build returns to the
\* position behind the check that started it
FrameOrder ==
    { << "frame", "resize" >>, << "frame", "poll" >>, << "resize", "poll" >>,
      << "poll", "cwg" >>, << "poll", "switch" >>, << "switch", "cwg" >>,
      << "switch", "acquire" >>, << "cwg", "cwg_compile" >>,
      << "cwg", "cwg_retry" >>, << "cwg_retry", "cwg_compile" >>,
      << "acquire", "target" >>, << "target", "render" >>, << "render", "ui" >>,
      << "ui", "submit" >>, << "submit", "present" >>, << "present", "events" >>,
      << "events", "frame" >>, << "events", "quit" >> }

\* C13: the positions of Run follow each other in the order resize check,
\* hot-reload check, switch check, GetNextFrameCommandList, GetNextRenderTarget,
\* OnRender, OnRenderUserInterface, ExecuteCurrentFrameCommandList, Present,
\* HandleEvents; the resize, the rebuild after a file change and the rebuild
\* after a switch are entered exactly when their condition holds and return
\* to the next check; and the commands a frame records are, once each and in
\* this order: the clears, the root constants, SetProgram and DispatchGraph,
\* the copy of the writable target, the user interface.
C13_FrameOrder ==
    /\ [](Rendered =>
            /\ Commands(commandList, "ClearUAV") # {}
            /\ Cardinality(Commands(commandList, "SetRootConstants")) = 1
            /\ Cardinality(Commands(commandList, "DispatchGraph")) = 1
            /\ Cardinality(Commands(commandList, "CopyTextureRegion")) = 1
            /\ Cardinality(Commands(commandList, "RenderUI")) = (IF pc = "ui" THEN 0 ELSE 1)
            /\ Precede(commandList, "ClearUAV", "SetRootConstants")
            /\ Precede(commandList, "SetRootConstants", "SetProgram")
            /\ Precede(commandList, "SetProgram", "DispatchGraph")
            /\ Precede(commandList, "DispatchGraph", "CopyTextureRegion")
            /\ Precede(commandList, "CopyTextureRegion", "RenderUI"))
    /\ [](pc \in {"acquire", "target"} => frameInfo.polled)
    /\ [][pc' # pc /\ pc \notin {"main", "unit"} /\ pc' # "exit" =>
            \/ << pc, pc' >> \in FrameOrder
            \/ /\ pc \in {"cwg", "cwg_retry", "cwg_compile"}
               /\ pc' = (IF caller = "ctor" THEN "frame"
                         ELSE IF caller = "reload" THEN "switch" ELSE "acquire")]_vars
    /\ [][pc = "frame" /\ pc' # pc => (pc' = "resize") = (window # swapchain)]_vars
    /\ [][pc = "poll" /\ pc' # pc => (pc' = "cwg") = frameInfo'.changed]_vars
    /\ [][pc = "switch" /\ pc' # pc =>
            (pc' = "cwg") = (workGraph.tutorialIndex # workGraphTutorialIndex
                             \/ workGraph.sampleSolution # workGraphUseSampleSolution)]_vars

\* C13: a frame that rebuilt the work graph twice, after a file change and
\* after a switch, has been presented
C13_Witness ==
    /\ pc = "events"
    /\ frameInfo.changed
    /\ frameInfo.switchRequested
    /\ frameInfo.builds = 2
    /\ Cardinality(Commands(commandList, "RenderUI")) = 1

\* the command lists the GPU has not finished
Incomplete == { i \in DOMAIN commandQueue : commandQueue[i].type = "exec" }

\* the command lists of a slot the GPU has not finished
IncompleteOf(slot) == { i \in Incomplete : commandQueue[i].value = slot }

\* C14: GetNextFrameCommandList resets a slot only when the slot was never
\* submitted or the fence has reached the slot's waitFenceValue, and then the
\* GPU has finished every command list submitted from the slot; the slot
\* stays free of unfinished work until the frame is submitted, and at most
\* BufferedFramesCount submitted frames are unfinished at any time.
C14_SlotReuse ==
    /\ [][pc = "acquire" /\ pc' = "target" =>
            /\ frameContexts[frameIndex'] = 0 \/ fence >= frameContexts[frameIndex']
            /\ IncompleteOf(frameIndex') = {}]_vars
    /\ [](pc \in {"target", "render", "ui", "submit"} => IncompleteOf(frameIndex) = {})
    /\ [](Cardinality(Incomplete) <= BufferedFramesCount)
    /\ [](\A slot \in DOMAIN frameContexts : Cardinality(IncompleteOf(slot)) <= 1)

\* C14: the fourth frame has been submitted from the slot of the first while
\* the second and the third are unfinished
C14_Witness ==
    /\ pc = "present"
    /\ frame = 4
    /\ Cardinality(Incomplete) = BufferedFramesCount
    /\ fence < signaledFenceValue - 2

\* the positions of Run within a frame
FramePositions == {"frame", "resize", "poll", "switch", "acquire", "target", "render", "ui",
                   "submit", "present", "events"}

\* C15 as stated: in a steady frame the main thread is blocked only at the
\* wait for the slot's fence in GetNextFrameCommandList.
C15_OnlyFenceWaitBlocksAsStated ==
    (pc \in FramePositions /\ ~ENABLED MainThread) => pc = "acquire"

\* C15: in a steady frame the main thread is blocked only at the wait for the
\* slot's fence in GetNextFrameCommandList, exactly while the fence is below
\* the slot's waitFenceValue, and at the wait for the swapchain's
\* frame-latency waitable object in GetNextRenderTarget, exactly while
\* BackbufferCount frames are waiting to be presented.
C15_OnlyFenceAndSwapchainWaitsBlock ==
    /\ (pc \in FramePositions /\ ~ENABLED MainThread) => pc \in {"acquire", "target"}
    /\ pc = "acquire" =>
          ((ENABLED MainThread) <=>
              LET next == (frameIndex + 1) % BufferedFramesCount
              IN  frameContexts[next] = 0 \/ fence >= frameContexts[next])
    /\ pc = "target" =>
          ((ENABLED MainThread) <=>
              Cardinality({ i \in DOMAIN commandQueue : commandQueue[i].type = "present" })
                 < BackbufferCount)

\* C15: the main thread is blocked in GetNextRenderTarget although the
\* slot's fence wait has returned
C15_Witness ==
    /\ pc = "target"
    /\ frame = 4
    /\ swapchainWaitableObject = 0
    /\ ~ENABLED MainThread
    /\ fence >= frameContexts[frameIndex]

\* the files in a tracked-file table
Tracked(table) == { p \in Paths : table[p] # Untracked }

\* CompileShader returned to the WorkGraph constructor in this build
CompileShaderReturned(build) ==
    build.error \in {"", "Operation Failed", "work graph does not contain an entry node"}

\* the top-level file of a build
TopLevel(build) ==
    GetShaderSourceFilePath(IF build.solution THEN Tutorial(build.index).solutionShaderFileName
                                              ELSE Tutorial(build.index).shaderFileName)

\* C16: when CompileShader returns for a source without #include and the
\* tracked-file table was empty before the call, the table holds exactly one
\* entry: the absolute path of the top-level file, with the file's time.
C16_SingleEntryFromEmpty ==
    [][(/\ pc = "cwg_compile" /\ pc' # pc
        /\ Tracked(trackedFiles) = {}
        /\ Includes(source.content) = {}
        /\ CompileShaderReturned(lastBuild'))
       => /\ Tracked(trackedFiles') = {source.path}
          /\ trackedFiles'[source.path] = fileTime[source.path]
          /\ source.path = "C:/playground/tutorials/" \o
                (IF workGraphUseSampleSolution
                   THEN Tutorial(workGraphTutorialIndex).solutionShaderFileName
                   ELSE Tutorial(workGraphTutorialIndex).shaderFileName)]_vars

\* C16: the first build compiled a source without #include
C16_Witness ==
    /\ pc = "unit"
    /\ unitOps.builds = 1
    /\ lastBuild.content = "plain"
    /\ lastBuild.success
    /\ Tracked(trackedFiles) = {TopLevel(lastBuild)}

\* C17: no step removes an entry of the tracked-file table.  A build leaves
\* in the table, with their current time, the includes its handler loaded,
\* also when the compile failed, and its top-level file when CompileShader
\* returned; every other entry is left as it was, so a CompileShader that
\* throws neither adds nor changes the entry of its top-level file; a build
\* that fails to load its source leaves the table as it was.
C17_TableGrows ==
    /\ [][\A p \in Paths : trackedFiles[p] # Untracked => trackedFiles'[p] # Untracked]_vars
    /\ [](lastBuild.recorded \subseteq Tracked(trackedFiles))
    /\ [][(pc = "cwg_compile" /\ pc' # pc) =>
            /\ CompileShaderReturned(lastBuild') <=> (source.path \in lastBuild'.recorded)
            /\ lastBuild'.recorded \subseteq Includes(source.content) \cup {source.path}
            /\ lastBuild'.success => Includes(source.content) \subseteq lastBuild'.recorded
            /\ \A p \in Paths :
                  trackedFiles'[p] = IF p \in lastBuild'.recorded THEN fileTime[p]
                                                                  ELSE trackedFiles[p]]_vars
    /\ [][(pc \in {"cwg", "cwg_retry"} /\ pc' # pc) => trackedFiles' = trackedFiles]_vars

\* C17: after a poll, the first build failed to compile and left the include
\* it had loaded in the table, without its top-level file
C17_Witness ==
    /\ pc = "exit"
    /\ unitOps.builds = 1
    /\ unitOps.polls >= 1
    /\ lastBuild.error = "Failed to compile shader"
    /\ Tracked(trackedFiles) = {HeaderPath}
    /\ lastBuild.recorded = {HeaderPath}

\* C18: CompileShader loads the top-level source once, and once more exactly
\* when the first load failed.  A load that succeeds, first or second, hands
\* the file's content to the compiler and changes nothing else; when the
\* second load fails as well the build fails with "Failed to load shader
\* file", the compiler has not run and the tracked-file table and the work
\* graph are as they were.
C18_LoadRetry ==
    /\ [](pc = "cwg_retry" => source.loads = 1)
    /\ [](pc = "cwg_compile" => source.loads \in {1, 2})
    /\ [][(pc = "cwg" /\ pc' \notin {"cwg", "cwg_retry", "cwg_compile"}) =>
            lastBuild'.error = "selected tutorial does not provide a sample solution."]_vars
    /\ [][(pc \in {"cwg", "cwg_retry"} /\ pc' = "cwg_compile") =>
            /\ source'.loads = (IF pc = "cwg" THEN 1 ELSE 2)
            /\ source'.content = fileContent[source'.path]
            /\ source'.path = TopLevel([index |-> workGraphTutorialIndex,
                                        solution |-> workGraphUseSampleSolution])
            /\ UNCHANGED << trackedFiles, workGraph, lastBuild >>]_vars
    /\ [][(pc = "cwg_retry" /\ pc' \notin {"cwg_retry", "cwg_compile"}) =>
            /\ lastBuild'.error = "Failed to load shader file"
            /\ ~lastBuild'.success
            /\ lastBuild'.recorded = {}
            /\ lastBuild'.content = ""
            /\ UNCHANGED << trackedFiles, workGraph >>]_vars

\* C18: a build failed at the second load, after an earlier build had filled
\* the tracked-file table
C18_Witness ==
    /\ pc = "unit"
    /\ unitOps.builds = 2
    /\ lastBuild.error = "Failed to load shader file"
    /\ workGraph.id # 0
    /\ Cardinality(Tracked(trackedFiles)) = 2

\* C19: a work graph whose program requests no backing memory is constructed
\* without a backing memory buffer and with a zero address and size in its
\* program description, one whose program requests some has a buffer of
\* that size; either is dispatched by one SetProgram, which carries the
\* address and size of the description, and one DispatchGraph of one record
\* of stride 0 at the entry-point index.
C19_ZeroBackingMemory ==
    /\ workGraph.id # 0 =>
          /\ workGraph.backingMemory = workGraph.maxSizeInBytes
          /\ workGraph.sizeInBytes = workGraph.maxSizeInBytes
          /\ (workGraph.startAddress = 0) = (workGraph.maxSizeInBytes = 0)
    /\ Rendered =>
          /\ workGraph.id # 0
          /\ Cardinality(Programs(commandList)) = 1
          /\ Cardinality(Dispatches(commandList)) = 1
          /\ \A i \in Programs(commandList) :
                /\ commandList[i].graph = workGraph.id
                /\ commandList[i].startAddress = workGraph.startAddress
                /\ commandList[i].sizeInBytes = workGraph.sizeInBytes
                /\ commandList[i + 1] =
                      [op |-> "DispatchGraph", graph |-> workGraph.id,
                       entry |-> workGraph.entryPointIndex, records |-> 1, recordStride |-> 0]

\* C19: a work graph without backing memory has been dispatched in two frames
C19_Witness ==
    /\ pc = "present"
    /\ frame = 2
    /\ workGraph.maxSizeInBytes = 0
    /\ workGraph.backingMemory = 0
    /\ \E i \in Programs(commandList) :
          commandList[i].sizeInBytes = 0 /\ ~commandList[i].initialize

\* the entries of a listing that are tutorials: '.hlsl' files whose stem does
\* not end in "Solution"
TutorialEntries(listing) ==
    { k \in DOMAIN listing :
         /\ listing[k].extension = ".hlsl"
         /\ \/ Len(listing[k].stem) < 8
            \/ SubSeq(listing[k].stem, Len(listing[k].stem) - 7, Len(listing[k].stem))
                  # << "S", "o", "l", "u", "t", "i", "o", "n" >> }

\* the i-th tutorial entry (from 0) of a listing, in traversal order
TutorialEntry(listing, i) ==
    CHOOSE k \in TutorialEntries(listing) :
       Cardinality({ j \in TutorialEntries(listing) : j < k }) = i

\* the stem with a space in front of every uppercase character that follows
\* a character that is not uppercase
RECURSIVE Spaced(_, _)
Spaced(stem, k) ==
    IF k > Len(stem) THEN ""
    ELSE (IF k > 1 /\ stem[k] \in UpperChars /\ stem[k - 1] \notin UpperChars
            THEN " " ELSE "")
         \o stem[k] \o Spaced(stem, k + 1)

\* the descriptors expected for a listing
ExpectedTutorial(listing, i) ==
    LET e == listing[TutorialEntry(listing, i)]
        dir == IF e.parent = "" THEN "" ELSE e.parent \o "/"
        sibling == [parent |-> e.parent,
                    stem |-> e.stem \o << "S", "o", "l", "u", "t", "i", "o", "n" >>,
                    extension |-> ".hlsl"]
    IN  [name |-> "Tutorial " \o Decimal(i) \o ": " \o Spaced(e.stem, 1),
         shaderFileName |-> dir \o String(e.stem) \o ".hlsl",
         solutionShaderFileName |->
            IF \E k \in DOMAIN listing : listing[k] = sibling
              THEN dir \o String(e.stem) \o "Solution.hlsl" ELSE ""]

\* C20: every call of GetTutorials returns the list computed by the first
\* call from the folder as it was then: one descriptor per '.hlsl' entry whose
\* stem does not end in "Solution", in traversal order; descriptor i is named
\* "Tutorial i: " followed by the stem with a space in front of every
\* uppercase character that follows a character that is not uppercase, holds
\* the path relative to tutorials/, and holds the path of the sibling
\* <stem>Solution.hlsl exactly when the folder has that entry.
C20_GetTutorials ==
    getTutorials.calls > 0 =>
        /\ tutorialsLoaded
        /\ getTutorials.returned = getTutorials.first
        /\ getTutorials.returned = tutorials
        /\ Len(tutorials) = Cardinality(TutorialEntries(getTutorials.listing))
        /\ \A i \in 0 .. (Len(tutorials) - 1) :
              tutorials[i + 1] = ExpectedTutorial(getTutorials.listing, i)

\* C20: the second call returned the list of the first although a tutorial
\* had been added in between; the list names a camel-case stem and its
\* sample solution
C20_Witness ==
    /\ getTutorials.calls = 2
    /\ Len(folder) > Len(getTutorials.listing)
    /\ Cardinality(TutorialEntries(folder)) > Len(tutorials)
    /\ \E i \in DOMAIN tutorials :
          /\ tutorials[i].name = "Tutorial 0: My New"
          /\ tutorials[i].shaderFileName = "a/MyNew.hlsl"
          /\ tutorials[i].solutionShaderFileName = "a/MyNewSolution.hlsl"

\* the inputState of the root constants pushed
PushedInputState == commandList[1].inputState

\* bit k of an unsigned value
Bit(value, k) == (value \div 2 ^ k) % 2 = 1

\* the bit the claim gives each input
InputBit == [MouseLeft |-> 0, MouseMiddle |-> 1, MouseRight |-> 2, Space |-> 3,
             UpArrow |-> 4, LeftArrow |-> 5, DownArrow |-> 6, RightArrow |-> 7,
             W |-> 8, A |-> 9, S |-> 10, D |-> 11]

\* C21: for every combination of the twelve inputs, bit k of the pushed
\* input state is set exactly when input k is down, no bit above 11 is set,
\* and each decode function of Common.h returns true exactly when its input
\* is down.
C21_InputBitmask ==
    pc = "pushed" =>
        /\ \A i \in Inputs : Bit(PushedInputState, InputBit[i]) <=> inputDown[i]
        /\ PushedInputState < 2 ^ 12
        /\ \A f \in DOMAIN ShaderMasks :
              InputIsDown(f, PushedInputState) <=> inputDown[ShaderMasks[f].input]
        /\ {ShaderMasks[f].input : f \in DOMAIN ShaderMasks} = Inputs

\* the left mouse button, the space bar and the keys W and D are down, and nothing else
C21_Witness ==
    /\ pc = "pushed"
    /\ {i \in Inputs : inputDown[i]} = {"MouseLeft", "Space", "W", "D"}
    /\ PushedInputState = 1 + 8 + 256 + 2048
    /\ InputIsDown("IsKeyDDown", PushedInputState)
    /\ ~InputIsDown("IsKeyADown", PushedInputState)

\* the last build attempt was made by Run and failed
RuntimeBuildFailedLast == lastBuild.caller \in {"reload", "switch"} /\ ~lastBuild.success

\* C22: a failing build is not retried endlessly.  After a failed switch the
\* requested tutorial and mode are those of the running instance; after a
\* failed hot-reload the stored timestamp of every tracked file equals its
\* current one, except for a file whose modification is still to be reported
\* (saved after the poll, or not readable during it); and once a build of Run
\* has failed, Run starts a build only for a modification still to be
\* reported or for a selection the user made in the last user interface pass.
C22_NoEndlessRetry ==
    /\ [](pc = "acquire" /\ frameInfo.builds > 0 /\ lastBuild.caller = "switch"
             /\ ~lastBuild.success
          => ~SwitchRequested)
    /\ [](pc = "switch" /\ frameInfo.builds > 0 /\ lastBuild.caller = "reload"
             /\ ~lastBuild.success
          => \A p \in Paths : trackedFiles[p] # Untracked =>
                (trackedFiles[p] = fileTime[p] \/ p \in unreported))
    /\ [][RuntimeBuildFailedLast /\ pc \in {"poll", "switch"} /\ pc' = "cwg"
          => IF pc = "poll" THEN unreported # {} ELSE ui.selected]_vars

\* the frame after a failed switch in which the user selected nothing: no
\* build attempt is made
C22_Witness ==
    /\ pc = "acquire"
    /\ frame = 3
    /\ frameInfo.builds = 0
    /\ lastBuild.caller = "switch"
    /\ ~lastBuild.success
    /\ lastBuild.error = "Failed to compile shader"
    /\ ~ui.selected

\* C23: a successful hot-reload of the unchanged selection replaces the live
\* instance and sets the error deadline to the time read, so that no banner
\* is due any more; it does not mark the persistent scratch buffer for
\* clearing, does not reset the start time and does not touch the requested
\* tutorial and mode, the window or the targets.
C23_HotReloadEffect ==
    [][pc = "cwg_compile" /\ caller = "reload" /\ ~SwitchRequested /\ lastBuild'.success
          /\ lastBuild' # lastBuild
       => /\ pc' = "switch"
          /\ workGraph'.id # workGraph.id
          /\ workGraph'.id \notin released'
          /\ workGraph.id \in released'
          /\ workGraph'.tutorialIndex = workGraph.tutorialIndex
          /\ workGraph'.sampleSolution = workGraph.sampleSolution
          /\ errorMessageEndTime' = now'
          /\ UNCHANGED << clearPersistentScratchBuffer, startTime, workGraphTutorialIndex,
                          workGraphUseSampleSolution, window, swapchain, writableBackbuffer,
                          tutorials >>]_vars

\* the second frame's hot-reload succeeded: the instance is a new one, no
\* banner is shown, the persistent scratch buffer is not marked for clearing
\* and the start time is older than the build
C23_Witness ==
    /\ pc = "submit"
    /\ frame = 2
    /\ frameInfo.changed
    /\ frameInfo.replaced = 1
    /\ frameInfo.builds = 1
    /\ lastBuild.caller = "reload"
    /\ lastBuild.success
    /\ ~lastBuild.before.initialize
    /\ ~clearPersistentScratchBuffer
    /\ ~ui.banner
    /\ startTime < lastBuild.time

\* C24: on a GPU that eventually completes what is submitted, every call of
\* WaitForDevice (in CreateWorkGraph and after the loop of Run) and of
\* GetNextFrameCommandList eventually returns and every frame that starts is
\* eventually submitted; and neither call returns before the fence has
\* reached the value it waits for, whatever time passes.
C24_WaitsReturn ==
    /\ (pc = "cwg") ~> (pc # "cwg")
    /\ (pc = "quit") ~> (pc = "exit")
    /\ (pc = "acquire") ~> (pc = "target")
    /\ (pc = "frame") ~> (pc = "present")
    /\ [][(pc \in {"cwg", "quit"} /\ pc' # pc) => (fence >= signaledFenceValue)]_vars
    /\ [][(pc = "acquire" /\ pc' # pc)
            => (frameContexts[frameIndex'] = 0 \/ fence >= frameContexts[frameIndex'])]_vars

\* GetNextFrameCommandList has returned for a slot used before, whose fence
\* value the GPU has just completed while later submissions are still queued
C24_Witness ==
    /\ pc = "target"
    /\ frame > BufferedFramesCount
    /\ frameContexts[frameIndex] # 0
    /\ fence = frameContexts[frameIndex]
    /\ commandQueue # << >>

\* C25: no modification is lost.  Whenever the poll of a frame reports no
\* change and the stored timestamp of the top-level source of the last build
\* attempt equals the file's current one, that attempt has read the file's
\* current content; in particular when the editor saved the file between
\* CompileShader's load of the source and its recording of the timestamp.
C25_NoModificationLost ==
    (/\ pc = "switch"
     /\ frameInfo.polled
     /\ ~frameInfo.changed
     /\ frameInfo.builds = 0
     /\ lastBuild.caller # "none"
     /\ trackedFiles[TopLevel(lastBuild)] = fileTime[TopLevel(lastBuild)])
    => lastBuild.content = fileContent[TopLevel(lastBuild)]

\* C26: while the application exists, the requested tutorial index is less
\* than the number of tutorials and the Sample Solution mode is requested
\* only for a tutorial that has a solution; so no build of Run or of the
\* constructor fails with "selected tutorial does not provide a sample
\* solution.", and the same holds for the running instance.
C26_RequestedValid ==
    /\ tutorials = << >> => pc \in {"main", "exit"}
    /\ tutorials # << >> =>
          /\ workGraphTutorialIndex \in 0 .. (Len(tutorials) - 1)
          /\ workGraphUseSampleSolution
                => Tutorial(workGraphTutorialIndex).solutionShaderFileName # ""
          /\ workGraph.id # 0 =>
                /\ workGraph.tutorialIndex \in 0 .. (Len(tutorials) - 1)
                /\ workGraph.sampleSolution
                      => Tutorial(workGraph.tutorialIndex).solutionShaderFileName # ""
    /\ lastBuild.error # "selected tutorial does not provide a sample solution."

\* the user has ticked Sample Solution for the first tutorial, got its
\* solution built, and then selected the tutorial without solution: the mode
\* is reset with the selection
C26_Witness ==
    /\ pc = "submit"
    /\ frame = 3
    /\ workGraph.sampleSolution
    /\ workGraph.tutorialIndex = 0
    /\ lastBuild.caller = "switch"
    /\ lastBuild.success
    /\ ui.selected
    /\ workGraphTutorialIndex = 1
    /\ Tutorial(workGraphTutorialIndex).solutionShaderFileName = ""
    /\ ~workGraphUseSampleSolution

\* the transition barriers a command list records for a resource, as pairs
\* of the state before and the state after
RECURSIVE TransitionsFrom(_, _, _)
TransitionsFrom(list, k, res) ==
    IF k > Len(list) THEN << >>
    ELSE (IF list[k].op = "Transition" /\ list[k].res = res
            THEN << << list[k].from, list[k].to >> >> ELSE << >>)
         \o TransitionsFrom(list, k + 1, res)

\* C27: the transition barriers of a frame are, for the render target,
\* PRESENT to RENDER_TARGET to COPY_DEST to RENDER_TARGET to PRESENT and, for
\* the writable back buffer, UNORDERED_ACCESS to COPY_SOURCE to
\* UNORDERED_ACCESS; each names the state the resource is in when the barrier
\* executes; and when the frame's commands have executed every back buffer is
\* in PRESENT and the writable back buffer in UNORDERED_ACCESS, in the first
\* frame and in the first frame after a resize as in any other.
C27_BarrierStates ==
    /\ pc \in {"submit", "present"} =>
          /\ TransitionsFrom(commandList, 1, "renderTarget")
                = << << "PRESENT", "RENDER_TARGET" >>, << "RENDER_TARGET", "COPY_DEST" >>,
                     << "COPY_DEST", "RENDER_TARGET" >>, << "RENDER_TARGET", "PRESENT" >> >>
          /\ TransitionsFrom(commandList, 1, "writableBackbuffer")
                = << << "UNORDERED_ACCESS", "COPY_SOURCE" >>,
                     << "COPY_SOURCE", "UNORDERED_ACCESS" >> >>
    /\ pc = "submit" =>
          /\ resources.renderTargets[resources.backbuffer] = "PRESENT"
          /\ resources.writableBackbuffer = "UNORDERED_ACCESS"
          /\ \A k \in 1 .. Len(commandList) :
                LET states == ExecuteCommands(SubSeq(commandList, 1, k), 1, resources)
                IN  /\ states.writableBackbuffer # "MISMATCH"
                    /\ states.renderTargets[states.backbuffer] # "MISMATCH"
    /\ resources # NoResources =>
          /\ \A i \in 0 .. (BackbufferCount - 1) : resources.renderTargets[i] = "PRESENT"
          /\ resources.writableBackbuffer = "UNORDERED_ACCESS"

\* the first frame after a resize has been submitted, in a run whose back
\* buffers had been used before the resize
C27_Witness ==
    /\ pc = "present"
    /\ frame = 2
    /\ frameInfo.resize
    /\ swapchain # << DefaultWindowWidth, DefaultWindowHeight >>
    /\ resources.backbuffer = 0
    /\ resources.writableBackbuffer = "UNORDERED_ACCESS"
    /\ resources.renderTargets[0] = "PRESENT"

\* C28: in one frame the instance is replaced at most once and at most two
\* build attempts are made; the switch check makes an attempt after the
\* frame's file-change attempt only if that attempt failed and the requested
\* tutorial or mode differs from the running instance's; when the file-change
\* attempt succeeded the switch check makes none.
C28_BuildsPerFrame ==
    /\ [](frame >= 1 => frameInfo.builds <= 2 /\ frameInfo.replaced <= 1)
    /\ [](frameInfo.builds = 2 => frameInfo.changed /\ frameInfo.switchRequested)
    /\ [][pc = "switch" /\ frameInfo.builds = 1
          => /\ lastBuild.caller = "reload"
             /\ pc' = "cwg" => (~lastBuild.success /\ SwitchRequested)
             /\ lastBuild.success => (pc' = "acquire" /\ ~SwitchRequested)]_vars

\* a frame with two attempts: the hot-reload failed, the switch the user had
\* asked for succeeded and replaced the instance
C28_Witness ==
    /\ pc = "acquire"
    /\ frame = 2
    /\ frameInfo.builds = 2
    /\ frameInfo.replaced = 1
    /\ frameInfo.changed
    /\ lastBuild.caller = "switch"
    /\ lastBuild.success
    /\ workGraph.tutorialIndex = 1

\* every record of the recursion tutorial's graph has been consumed
RecursionDone == pc = "graph" /\ \A n \in RecursiveNodes : PendingLevels(n) = {}

\* C29: a Snowflake or Sponge invocation requests recursive records exactly
\* when GetRemainingRecursionLevels() is not zero and draws otherwise; no
\* record lies deeper than NodeMaxRecursionDepth levels; no invocation
\* requests more than the MaxRecords of its output; exactly the invocations
\* of the deepest level draw, 3 * 4^4 = 768 lines for Snowflake (and 8^4 boxes
\* for Sponge in the solution).
C29_Recursion ==
    LET inv == recursion.invocation
    IN  /\ inv.node \in RecursiveNodes =>
              /\ inv.requested > 0 <=> inv.remaining # 0
              /\ inv.drew <=> inv.remaining = 0
              /\ inv.drew <=> inv.level = NodeMaxRecursionDepth
              /\ inv.requested \in {0, MaxRecords[inv.node]}
        /\ inv.node = "Entry" => inv.requested = MaxRecords["Entry"]
        /\ \A n \in RecursiveNodes : recursion.pending[n][NodeMaxRecursionDepth + 1] = 0
        /\ RecursionDone =>
              /\ recursion.drawn["Snowflake"] = 3 * 4 ^ 4
              /\ recursion.drawn["Snowflake"] = 768
              /\ recursion.drawn["Sponge"] = IF recursion.solution THEN 8 ^ 4 ELSE 0

\* the graph of the sample solution has run to its end
C29_Witness ==
    /\ RecursionDone
    /\ recursion.solution
    /\ recursion.drawn["Snowflake"] = 768
    /\ recursion.drawn["Sponge"] = 4096
    /\ recursion.invocation.node = "Sponge"
    /\ recursion.invocation.drew
    /\ recursion.invocation.remaining = 0

\* every thread of ComputeBoundingBox has returned
SynchronizationDone ==
    pc = "broadcast" /\ \A dtid \in DispatchThreads : sync.threads[dtid].at = "return"

Min(S) == CHOOSE x \in S : \A y \in S : x <= y

\* the box of the padded coordinates of all points, from aabbmin = RenderSize
\* and aabbmax = 0
PointsMin(c) ==
    Min({RenderSize[c]} \cup { PaddedMin(sync.threads[d].pixel[c], d) : d \in DispatchThreads })
PointsMax(c) ==
    Max({0} \cup { PaddedMax(sync.threads[d].pixel[c], d) : d \in DispatchThreads })

\* C30: in every interleaving of the thread groups of ComputeBoundingBox the
\* bounding box is drawn exactly once per dispatch, by thread 0 of the last
\* group to call FinishedCrossGroupSharing, after every thread of every group
\* has applied its four InterlockedMin/InterlockedMax updates, and the box
\* drawn is the minimum and maximum of all points' padded coordinates,
\* starting from aabbmin = RenderSize and aabbmax = 0.
C30_BoundingBox ==
    /\ Len(sync.draws) <= 1
    /\ SynchronizationDone => Len(sync.draws) = 1
    /\ \A i \in 1 .. Len(sync.draws) :
         LET draw == sync.draws[i]
         IN  /\ draw.gtid = 0
             /\ Len(sync.calls) = numGroups
             /\ draw.group = sync.calls[numGroups]
             /\ draw.applied = 4 * Cardinality(DispatchThreads)
             /\ \A d \in DispatchThreads :
                    sync.threads[d].at \in {"FinishedCrossGroupSharing", "DrawRect", "return"}
             /\ draw.aabbmin = << PointsMin(1), PointsMin(2) >>
             /\ draw.aabbmax = << PointsMax(1), PointsMax(2) >>

\* the dispatch has ended with the box drawn by a group that was not the
\* last to start, around points on both sides of the render target's edge
C30_Witness ==
    /\ SynchronizationDone
    /\ Len(sync.draws) = 1
    /\ sync.draws[1].group = 0
    /\ sync.calls[numGroups] = 0
    /\ sync.draws[1].aabbmin[1] < 0
    /\ sync.draws[1].aabbmax[1] > 0
    /\ sync.draws[1].aabbmin # EntryRecord.aabbmin
    /\ sync.draws[1].aabbmax # EntryRecord.aabbmax

====
